---------------------------- MODULE Spec2Model ----------------------------
(***************************************************************************)
(* Model of the code-review indexer: the change-set detector, the chunk    *)
(* synchroniser (app/indexing/incremental_indexer.py, and its earlier      *)
(* copy app/incremental_indexer.py), the full indexer with its per-file    *)
(* tasks, and the pull-request handler that collects the review tasks.     *)
(*                                                                         *)
(* Python strings are sequences of one-character strings.  A source file   *)
(* is a sequence of lines, one token per line (see SourceDefs).            *)
(***************************************************************************)
EXTENDS Integers, Sequences, FiniteSets, Bags, TLC

VARIABLES
    variant,    \* which copy of the synchroniser runs: "indexing" or "legacy"
    tree,       \* the repository history: commit -> snapshot (path -> content)
    tip,        \* the newest commit of the remote
    head,       \* the commit checked out in the local working copy, or "none"
    db,         \* the vector store: table name -> bag of rows
    last,       \* the last run: arguments, faults, calls issued, result
    budget,     \* how many more runs the environment may disturb with a fault
    gitOut,     \* (change-set detector alone) what the git diff command gave
    changed,    \* (change-set detector alone) what get_changed_files gave
    diffDoc,    \* (diff parser alone) the files and hunks of a unified diff
    diffText,   \* (diff parser alone) the text of that diff
    fileDiffs,  \* (diff parser alone) what parse_diff gave
    tasks,      \* (webhooks) per delivery, the background tasks still to run
    inflight,   \* (webhooks) per delivery, the run its current task is in
    retrieved,  \* (retriever alone) the last retrieval: arguments and result
    named,      \* (table names alone) two repository URLs and their table names
    gather,     \* (per-file tasks alone) the tasks index_repository gathers
    review      \* (pull requests alone) the review tasks of one pull request

parseVars == <<diffDoc, diffText, fileDiffs>>
hookVars == <<tasks, inflight>>

vars == <<variant, tree, tip, head, db, last, budget, gitOut, changed,
          diffDoc, diffText, fileDiffs, tasks, inflight, retrieved, named,
          gather, review>>

-----------------------------------------------------------------------------
(* Bounds of the model *)

\* incremental runs start only while the table holds at most this many rows
MaxRows == 2
\* at most this many runs of a behaviour meet a fault of the environment
MaxFaultyRuns == 1
\* longest diff output, in lines, given to the change-set detector alone
MaxLines == 2

-----------------------------------------------------------------------------
(* Strings *)

TAB == "\t"
NL == "\n"
SP == " "

S_PY == <<".", "p", "y">>
A_PY == <<"a", ".", "p", "y">>
B_PY == <<"b", ".", "p", "y">>
N_MD == <<"n", ".", "m", "d">>

startswith(s, pre) ==
    /\ Len(s) >= Len(pre)
    /\ SubSeq(s, 1, Len(pre)) = pre

endswith(s, suf) ==
    /\ Len(s) >= Len(suf)
    /\ SubSeq(s, Len(s) - Len(suf) + 1, Len(s)) = suf

IsSpace(c) == c \in {SP, TAB, NL}

\* pat in s
contains(s, pat) ==
    \E i \in 1..Len(s) :
        i + Len(pat) - 1 <= Len(s) /\ SubSeq(s, i, i + Len(pat) - 1) = pat

RECURSIVE lstrip(_)
lstrip(s) ==
    IF s # <<>> /\ IsSpace(Head(s)) THEN lstrip(Tail(s)) ELSE s

RECURSIVE rstrip(_)
rstrip(s) ==
    IF s # <<>> /\ IsSpace(s[Len(s)]) THEN rstrip(SubSeq(s, 1, Len(s) - 1)) ELSE s

strip(s) == rstrip(lstrip(s))

\* str.split(sep) for a one-character separator: always at least one part
RECURSIVE SplitFrom(_, _, _)
SplitFrom(s, sep, cur) ==
    IF s = <<>> THEN <<cur>>
    ELSE IF Head(s) = sep THEN <<cur>> \o SplitFrom(Tail(s), sep, <<>>)
    ELSE SplitFrom(Tail(s), sep, Append(cur, Head(s)))

split(s, sep) == SplitFrom(s, sep, <<>>)

\* str.splitlines(): no line for the empty text, none after a final newline
splitlines(s) ==
    IF s = <<>> THEN <<>>
    ELSE IF s[Len(s)] = NL THEN split(SubSeq(s, 1, Len(s) - 1), NL)
    ELSE split(s, NL)

RECURSIVE join(_, _)
join(parts, sep) ==
    IF parts = <<>> THEN <<>>
    ELSE IF Len(parts) = 1 THEN parts[1]
    ELSE parts[1] \o <<sep>> \o join(Tail(parts), sep)

\* str.replace(pat, rep): every non-overlapping occurrence, left to right
RECURSIVE replace(_, _, _)
replace(s, pat, rep) ==
    IF s = <<>> THEN <<>>
    ELSE IF startswith(s, pat)
         THEN rep \o replace(SubSeq(s, Len(pat) + 1, Len(s)), pat, rep)
    ELSE <<Head(s)>> \o replace(Tail(s), pat, rep)

\* parts[-2:]
LastTwo(parts) ==
    IF Len(parts) <= 2 THEN parts ELSE SubSeq(parts, Len(parts) - 1, Len(parts))

RECURSIVE SeqToSet(_)
SeqToSet(s) == IF s = <<>> THEN {} ELSE {Head(s)} \cup SeqToSet(Tail(s))

RECURSIVE SeqToBag(_)
SeqToBag(s) == IF s = <<>> THEN EmptyBag ELSE SetToBag({Head(s)}) (+) SeqToBag(Tail(s))

-----------------------------------------------------------------------------
(* Repository URLs and table names *)

U_GIT == <<"h", "/", "o", "/", "r", ".", "g", "i", "t">>
U_WEB == <<"h", "/", "o", "/", "r">>
\* another repository of the same owner
U_OTHER == <<"h", "/", "o", "/", "s">>
RepoUrls == {U_GIT, U_WEB}

repo_url_to_table_name(url) ==
    LET repo_name == replace(join(LastTwo(split(url, "/")), "/"),
                             <<".", "g", "i", "t">>, <<>>)
    IN  replace(repo_name, <<"/">>, <<"_">>)

-----------------------------------------------------------------------------
(* Source files and the chunk extractor (app/indexing/code_parser.py) *)

\* One token per source line:
\*   "F", "G", "H"  the line `def f():`, `def g():`, `def h():`
\*   "-"            an indented line, continuing the definition above it
\*   "_"            a blank line
\*   "D"            the line `def f(): pass; def f(): pass`
K1 == <<"F", "-">>
K3 == <<"F", "-", "-", "_", "G", "-", "_", "H", "-">>
KD == <<"D">>
KN == <<"_", "_">>

HeaderName(tok) ==
    CASE tok = "F" -> <<"f">>
      [] tok = "G" -> <<"g">>
      [] tok = "H" -> <<"h">>
      [] OTHER -> <<>>

IsHeader(tok) == tok \in {"F", "G", "H"}

\* the last line of the definition that starts on line i
RECURSIVE BodyEnd(_, _)
BodyEnd(code, i) ==
    IF i < Len(code) /\ code[i + 1] = "-" THEN BodyEnd(code, i + 1) ELSE i

\* the function_definition / class_definition nodes the query captures, in
\* source order: <<name, start_line, end_line>>
RECURSIVE DefsFrom(_, _)
DefsFrom(code, i) ==
    IF i > Len(code) THEN <<>>
    ELSE IF IsHeader(code[i])
         THEN <<[name |-> HeaderName(code[i]), start |-> i, end |-> BodyEnd(code, i)]>>
              \o DefsFrom(code, i + 1)
    ELSE IF code[i] = "D"
         THEN <<[name |-> <<"f">>, start |-> i, end |-> i],
                [name |-> <<"f">>, start |-> i, end |-> i]>>
              \o DefsFrom(code, i + 1)
    ELSE DefsFrom(code, i + 1)

SourceDefs(code) == DefsFrom(code, 1)

\* str(n) for a line number
RECURSIVE str(_)
str(n) ==
    LET digit == <<"0", "1", "2", "3", "4", "5", "6", "7", "8", "9">>[(n % 10) + 1]
    IN  IF n < 10 THEN <<digit>> ELSE str(n \div 10) \o <<digit>>

\* f"{file_path}#{chunk_name}#{start_line}-{end_line}"
ChunkId(file_path, chunk_name, start_line, end_line) ==
    file_path \o <<"#">> \o chunk_name \o <<"#">>
        \o str(start_line) \o <<"-">> \o str(end_line)

\* parse_and_extract_chunks(file_path, code_content): a list of dicts
parse_and_extract_chunks(file_path, code_content) ==
    LET defs == SourceDefs(code_content)
    IN  [i \in 1..Len(defs) |->
            [id         |-> ChunkId(file_path, defs[i].name, defs[i].start, defs[i].end),
             file_path  |-> file_path,
             chunk_name |-> defs[i].name,
             type       |-> "function",
             code       |-> SubSeq(code_content, defs[i].start, defs[i].end),
             start_line |-> defs[i].start,
             end_line   |-> defs[i].end]]

-----------------------------------------------------------------------------
(* The repository history and `git diff --name-status` *)

Commits == {"c1", "c2"}
PyPaths == {A_PY, B_PY}
Paths == {A_PY, B_PY, N_MD}
\* git lists paths in byte order
PathOrder == <<A_PY, B_PY, N_MD>>

\* the contents a path takes in the histories explored
ContentsOf(p) ==
    IF p = A_PY THEN {K1, K3, KD}
    ELSE IF p = B_PY THEN {K1}
    ELSE {KN}

\* a snapshot maps each path that exists to its content
SnapshotsOver(S) ==
    {snap \in [S -> {K1, K3, KD, KN}] : \A p \in S : snap[p] \in ContentsOf(p)}

PySnapshots == UNION {SnapshotsOver(S) : S \in SUBSET PyPaths}

\* the first commit holds one-definition Python files only; the second adds n.md
Trees ==
    {[c \in Commits |-> IF c = "c1" THEN s1 ELSE s2 @@ (N_MD :> KN)] :
        s1 \in {s \in PySnapshots : \A p \in DOMAIN s : s[p] = K1},
        s2 \in PySnapshots}

Exists(snap, p) == p \in DOMAIN snap

\* the exact rename git pairs with the deleted path p: the first added path
\* that holds p's content (rename detection is git's default)
RenameTargets(old, new, p) ==
    {i \in 1..Len(PathOrder) :
        /\ Exists(old, p) /\ ~Exists(new, p)
        /\ ~Exists(old, PathOrder[i]) /\ Exists(new, PathOrder[i])
        /\ new[PathOrder[i]] = old[p]}

Min(S) == CHOOSE x \in S : \A y \in S : x <= y

RenamedTo(old, new, p) ==
    IF RenameTargets(old, new, p) = {} THEN <<>>
    ELSE PathOrder[Min(RenameTargets(old, new, p))]

\* q is the target of p's rename, and of no earlier path's
IsRenameTarget(old, new, q) ==
    \E i \in 1..Len(PathOrder) : RenamedTo(old, new, PathOrder[i]) = q

\* one entry of the name-status listing: the status and its one or two paths
Entry(status, paths) == [status |-> status, paths |-> paths]

NameStatusEntry(old, new, p) ==
    IF Exists(old, p) /\ ~Exists(new, p)
    THEN IF RenamedTo(old, new, p) # <<>>
         THEN <<Entry(<<"R", "1", "0", "0">>, <<p, RenamedTo(old, new, p)>>)>>
         ELSE <<Entry(<<"D">>, <<p>>)>>
    ELSE IF ~Exists(old, p) /\ Exists(new, p)
    THEN IF IsRenameTarget(old, new, p) THEN <<>> ELSE <<Entry(<<"A">>, <<p>>)>>
    ELSE IF Exists(old, p) /\ Exists(new, p) /\ old[p] # new[p]
    THEN <<Entry(<<"M">>, <<p>>)>>
    ELSE <<>>

RECURSIVE NameStatusEntries(_, _, _)
NameStatusEntries(old, new, i) ==
    IF i > Len(PathOrder) THEN <<>>
    ELSE NameStatusEntry(old, new, PathOrder[i]) \o NameStatusEntries(old, new, i + 1)

\* repo.git.diff("--name-status", old_commit, new_commit), entry by entry
GitDiffNameStatus(old, new) == NameStatusEntries(old, new, 1)

\* the text git prints: one line per entry, fields separated by tabs
DiffText(entries) ==
    join([i \in 1..Len(entries) |->
            join(<<entries[i].status>> \o entries[i].paths, TAB)], NL)

-----------------------------------------------------------------------------
(* ChangeSetDetector: get_changed_files *)

EmptyChanges == [added |-> <<>>, modified |-> <<>>, deleted |-> <<>>]

\* ClassifyLine without the tracked-extension filter
ClassifyLine_AnyExtension(acc, line) ==
    IF strip(line) = <<>> THEN acc
    ELSE LET parts == split(strip(line), TAB) IN
         IF Len(parts) < 2 THEN acc
         ELSE LET status == parts[1]
                  path   == parts[2]
              IN  IF startswith(status, <<"A">>)
                  THEN [acc EXCEPT !.added = Append(@, path)]
                  ELSE IF startswith(status, <<"M">>)
                       THEN [acc EXCEPT !.modified = Append(@, path)]
                  ELSE IF startswith(status, <<"D">>)
                       THEN [acc EXCEPT !.deleted = Append(@, path)]
                  ELSE acc

\* one line of the diff output, app/indexing/incremental_indexer.py
ClassifyLine(acc, line) ==
    IF strip(line) = <<>> THEN acc
    ELSE LET parts == split(strip(line), TAB) IN
         IF Len(parts) < 2 THEN acc
         ELSE LET status == parts[1]
                  path   == parts[2]
              IN  IF ~endswith(path, S_PY) THEN acc
                  ELSE IF startswith(status, <<"A">>)
                       THEN [acc EXCEPT !.added = Append(@, path)]
                  ELSE IF startswith(status, <<"M">>)
                       THEN [acc EXCEPT !.modified = Append(@, path)]
                  ELSE IF startswith(status, <<"D">>)
                       THEN [acc EXCEPT !.deleted = Append(@, path)]
                  ELSE acc

\* one line of the diff output, app/incremental_indexer.py
LegacyClassifyLine(acc, line) ==
    IF strip(line) = <<>> THEN acc
    ELSE LET parts == split(line, TAB) IN
         IF Len(parts) < 2 THEN acc
         ELSE LET status == strip(parts[1])
                  path   == strip(parts[2])
              IN  IF ~endswith(path, S_PY) THEN acc
                  ELSE IF startswith(status, <<"A">>)
                       THEN [acc EXCEPT !.added = Append(@, path)]
                  ELSE IF startswith(status, <<"M">>)
                       THEN [acc EXCEPT !.modified = Append(@, path)]
                  ELSE IF startswith(status, <<"D">>)
                       THEN [acc EXCEPT !.deleted = Append(@, path)]
                  ELSE acc

RECURSIVE ClassifyLines(_, _, _)
ClassifyLines(v, acc, lines) ==
    IF lines = <<>> THEN acc
    ELSE ClassifyLines(v,
                       IF v = "legacy" THEN LegacyClassifyLine(acc, Head(lines))
                                       ELSE ClassifyLine(acc, Head(lines)),
                       Tail(lines))

\* a detector that takes the output of a failed diff command for a change set
get_changed_files_IgnoresFailure(v, git) ==
    [raised |-> "none"] @@ ClassifyLines(v, EmptyChanges, splitlines(git.text))

\* get_changed_files handing over what the command printed before it failed
get_changed_files_Partial(v, git) ==
    IF git.ok \/ v = "legacy"
    THEN [raised |-> "none"] @@ ClassifyLines(v, EmptyChanges, splitlines(git.text))
    ELSE [raised |-> "RepositoryIndexingError"] @@ EmptyChanges

\* git: [ok |-> the diff command succeeded, text |-> its output].
\* Gives [raised, added, modified, deleted]; raised = "none" when it returns.
get_changed_files(v, git) ==
    IF git.ok
    THEN [raised |-> "none"] @@ ClassifyLines(v, EmptyChanges, splitlines(git.text))
    ELSE IF v = "legacy"
         THEN [raised |-> "none"] @@ EmptyChanges
         ELSE [raised |-> "RepositoryIndexingError"] @@ EmptyChanges

-----------------------------------------------------------------------------
(* Faults of the environment during one run *)

NoFault == [site |-> "none", paths |-> {}, idx |-> {}]

\* model: the embedding model cannot be loaded; conn: the store is unreachable;
\* table: the table cannot be created or opened; pull: clone/pull fails;
\* diff: the diff command fails; count: counting the rows to delete fails;
\* delete: the delete fails; len: counting the table's rows fails
GlobalFaults ==
    {[site |-> s, paths |-> {}, idx |-> {}] :
        s \in {"model", "conn", "table", "pull", "diff", "count", "delete", "len"}}

\* unicode: the file is not UTF-8; io: reading it fails; parse: the extractor
\* raises; add: the store refuses the insert
FileFaults ==
    {[site |-> s, paths |-> P, idx |-> {}] :
        s \in {"unicode", "io", "parse", "add"}, P \in {{A_PY}, PyPaths}}

\* embed: the embedder fails for the chunks idx of the files paths
EmbedFaults ==
    {[site |-> "embed", paths |-> {A_PY}, idx |-> {2}],
     [site |-> "embed", paths |-> PyPaths, idx |-> {1, 2, 3}]}

Faults == {NoFault} \cup GlobalFaults \cup FileFaults \cup EmbedFaults

\* the history on which faults are injected: the second commit adds b.py and
\* changes a.py from one definition to three
FaultTree(t) ==
    /\ DOMAIN t["c1"] = {A_PY}
    /\ t["c1"][A_PY] = K1
    /\ DOMAIN t["c2"] = {A_PY, B_PY, N_MD}
    /\ t["c2"][A_PY] = K3

FaultsFor(t, left) == IF FaultTree(t) /\ left > 0 THEN Faults ELSE {NoFault}

Fails(f, site, p) == f.site = site /\ p \in f.paths
EmbedFails(f, p, i) == f.site = "embed" /\ p \in f.paths /\ i \in f.idx

-----------------------------------------------------------------------------
(* The vector store (app/vector_store.py) *)

EmptyDb == [n \in {} |-> EmptyBag]

create_code_table_if_not_exists(d, name) ==
    IF name \in DOMAIN d THEN d ELSE d @@ (name :> EmptyBag)

\* a drop that leaves the table
drop_table_KeepsRows(d, name) == d

drop_table(d, name) == [n \in DOMAIN d \ {name} |-> d[n]]

\* the rows of table `name`; no rows when there is no such table
Rows(d, name) == IF name \in DOMAIN d THEN d[name] ELSE EmptyBag

\* 'text' as an SQL literal: quotes doubled
SqlEscape(s) == replace(s, <<"'">>, <<"'", "'">>)

\* a condition on the path alone
Matches_PathOnly(row, cond) == SqlEscape(row.file_path) = cond.file_path

\* the row satisfies the condition (repo_url = '...' AND file_path = '...')
Matches(row, cond) ==
    /\ row.repo_url = cond.repo_url
    /\ SqlEscape(row.file_path) = cond.file_path

MatchesAny(row, conds) == \E i \in 1..Len(conds) : Matches(row, conds[i])

\* table.delete(filter)
TableDelete(bag, conds) ==
    [r \in {x \in DOMAIN bag : ~MatchesAny(x, conds)} |-> bag[r]]

\* len(table.search().where(filter))
TableCount(bag, conds) ==
    BagCardinality([r \in {x \in DOMAIN bag : MatchesAny(x, conds)} |-> bag[r]])

\* table.add(rows)
TableAdd(bag, rows) == bag (+) SeqToBag(rows)

\* the calls a run issues, in order
Call(op, conds, path, rows, ok) ==
    [op |-> op, conds |-> conds, path |-> path, rows |-> rows, ok |-> ok]

-----------------------------------------------------------------------------
(* ChunkSync: delete_file_chunks_from_db *)

\* What one phase gives back: the table, the calls issued, the count returned
\* and the exception raised ("none" when it returns).
Phase(bag, calls, count, raised) ==
    [bag |-> bag, calls |-> calls, count |-> count, raised |-> raised]

\* app/indexing/incremental_indexer.py: one condition per path, joined by OR
DeleteConds(repo_url, file_paths) ==
    [i \in 1..Len(file_paths) |->
        [repo_url |-> repo_url, file_path |-> SqlEscape(file_paths[i])]]

\* app/incremental_indexer.py: the paths are put in the filter unescaped
LegacyDeleteConds(repo_url, file_paths) ==
    [i \in 1..Len(file_paths) |->
        [repo_url |-> repo_url, file_path |-> file_paths[i]]]

delete_file_chunks_from_db(bag, repo_url, file_paths, f) ==
    IF file_paths = <<>> THEN Phase(bag, <<>>, 0, "none")
    ELSE LET conds == DeleteConds(repo_url, file_paths)
             counted == Call("count", conds, <<>>, <<>>, f.site # "count")
             deleted_count == IF f.site = "count" THEN -1 ELSE TableCount(bag, conds)
             deleted == Call("delete", conds, <<>>, <<>>, f.site # "delete")
         IN  IF f.site = "delete"
             THEN Phase(bag, <<counted, deleted>>, 0, "VectorDBError")
             ELSE Phase(TableDelete(bag, conds), <<counted, deleted>>,
                        IF deleted_count >= 0 THEN deleted_count ELSE 0, "none")

Legacy_delete_file_chunks_from_db(bag, repo_url, file_paths, f) ==
    IF file_paths = <<>> THEN Phase(bag, <<>>, 0, "none")
    ELSE LET conds == LegacyDeleteConds(repo_url, file_paths)
             counted == Call("count", conds, <<>>, <<>>, f.site # "count")
             deleted == Call("delete", conds, <<>>, <<>>, f.site # "delete")
         IN  IF f.site = "count" THEN Phase(bag, <<counted>>, 0, "none")
             ELSE IF f.site = "delete" THEN Phase(bag, <<counted, deleted>>, 0, "none")
             ELSE Phase(TableDelete(bag, conds), <<counted, deleted, counted>>,
                        TableCount(bag, conds), "none")

-----------------------------------------------------------------------------
(* ChunkSync: process_and_add_file_chunks *)

\* get_embedding: the vector of the text, or None
get_embedding(code, failed) == IF failed \/ code = <<>> THEN <<>> ELSE <<"v">> \o code

\* The names a chunk answers to as attributes (chunk.content, ...): the
\* extractor returns dicts, whose keys are reached by subscription only.
ChunkAttributes(chunk) == {}

\* app/indexing/incremental_indexer.py, the body of `for chunk in chunks`:
\* the row of chunk i, or none when the body raises
LiveChunkRows(repo_url, file_path, chunks, i, f) ==
    IF /\ {"content", "start_line", "end_line", "symbol_type", "symbol_name"}
              \subseteq ChunkAttributes(chunks[i])
       /\ ~EmbedFails(f, file_path, i)
    THEN <<[repo_url   |-> repo_url,
            file_path  |-> file_path,
            start_line |-> chunks[i].start_line,
            end_line   |-> chunks[i].end_line,
            content    |-> chunks[i].code,
            embedding  |-> get_embedding(chunks[i].code, FALSE)]>>
    ELSE <<>>

RECURSIVE LiveRowsFrom(_, _, _, _, _)
LiveRowsFrom(repo_url, file_path, chunks, i, f) ==
    IF i > Len(chunks) THEN <<>>
    ELSE LiveChunkRows(repo_url, file_path, chunks, i, f)
         \o LiveRowsFrom(repo_url, file_path, chunks, i + 1, f)

\* the loop state: the table, the chunks added, the errors recorded, the calls
Loop(bag, added, errors, calls) ==
    [bag |-> bag, added |-> added, errors |-> errors, calls |-> calls]

\* the extractor call of app/indexing/incremental_indexer.py:
\* parse_and_extract_chunks(file_content, file_path)
LiveExtract(file_path, file_content) ==
    parse_and_extract_chunks(file_content, file_path)

\* an iteration that records the missing file as an error
LiveFileStep_MissingIsError(st, repo_url, wc, file_path, f) ==
    IF ~Exists(wc, file_path) THEN [st EXCEPT !.errors = @ + 1]
    ELSE IF Fails(f, "unicode", file_path) THEN st
    ELSE IF Fails(f, "io", file_path) THEN [st EXCEPT !.errors = @ + 1]
    ELSE LET st1 == [st EXCEPT !.calls =
                        Append(@, Call("extract", <<>>, file_path, <<>>,
                                       ~Fails(f, "parse", file_path)))]
         IN  IF Fails(f, "parse", file_path) THEN [st1 EXCEPT !.errors = @ + 1]
             ELSE LET chunks == LiveExtract(file_path, wc[file_path])
                      db_rows == LiveRowsFrom(repo_url, file_path, chunks, 1, f)
                  IN  IF chunks = <<>> \/ db_rows = <<>> THEN st1
                      ELSE IF Fails(f, "add", file_path)
                           THEN [st1 EXCEPT
                                   !.errors = @ + 1,
                                   !.calls = Append(@, Call("add", <<>>, file_path, db_rows, FALSE))]
                      ELSE [st1 EXCEPT
                              !.bag = TableAdd(@, db_rows),
                              !.added = @ + Len(db_rows),
                              !.calls = Append(@, Call("add", <<>>, file_path, db_rows, TRUE))]

\* one iteration of `for file_path in file_paths`
LiveFileStep(st, repo_url, wc, file_path, f) ==
    IF ~Exists(wc, file_path) THEN st
    ELSE IF Fails(f, "unicode", file_path) THEN st
    ELSE IF Fails(f, "io", file_path) THEN [st EXCEPT !.errors = @ + 1]
    ELSE LET st1 == [st EXCEPT !.calls =
                        Append(@, Call("extract", <<>>, file_path, <<>>,
                                       ~Fails(f, "parse", file_path)))]
         IN  IF Fails(f, "parse", file_path) THEN [st1 EXCEPT !.errors = @ + 1]
             ELSE LET chunks == LiveExtract(file_path, wc[file_path])
                      db_rows == LiveRowsFrom(repo_url, file_path, chunks, 1, f)
                  IN  IF chunks = <<>> \/ db_rows = <<>> THEN st1
                      ELSE IF Fails(f, "add", file_path)
                           THEN [st1 EXCEPT
                                   !.errors = @ + 1,
                                   !.calls = Append(@, Call("add", <<>>, file_path, db_rows, FALSE))]
                      ELSE [st1 EXCEPT
                              !.bag = TableAdd(@, db_rows),
                              !.added = @ + Len(db_rows),
                              !.calls = Append(@, Call("add", <<>>, file_path, db_rows, TRUE))]

RECURSIVE LiveFileLoop(_, _, _, _, _)
LiveFileLoop(st, repo_url, wc, file_paths, f) ==
    IF file_paths = <<>> THEN st
    ELSE LiveFileLoop(LiveFileStep(st, repo_url, wc, Head(file_paths), f),
                      repo_url, wc, Tail(file_paths), f)

\* an ending that hands back the count whatever was recorded
LiveProcessEnd_CountOnly(st) == Phase(st.bag, st.calls, st.added, "none")

\* what the function does once the loop is over
LiveProcessEnd(st) ==
    IF st.errors > 0 /\ st.added = 0
    THEN Phase(st.bag, st.calls, 0, "VectorDBError")
    ELSE Phase(st.bag, st.calls, st.added, "none")

process_and_add_file_chunks(bag, repo_url, wc, file_paths, f) ==
    IF file_paths = <<>> THEN Phase(bag, <<>>, 0, "none")
    ELSE LiveProcessEnd(LiveFileLoop(Loop(bag, 0, 0, <<>>), repo_url, wc, file_paths, f))

\* CodeChunkSchema(id=..., repo_url=..., file_path=chunk["file_path"], ...):
\* the rows of the chunks whose embedding is not None
RECURSIVE ChunkRowsFrom(_, _, _, _, _)
ChunkRowsFrom(repo_url, file_path, chunks, i, f) ==
    IF i > Len(chunks) THEN <<>>
    ELSE (IF get_embedding(chunks[i].code, EmbedFails(f, file_path, i)) = <<>>
          THEN <<>>
          ELSE <<[id         |-> chunks[i].id,
                  repo_url   |-> repo_url,
                  file_path  |-> chunks[i].file_path,
                  code_chunk |-> chunks[i].code,
                  embedding  |-> get_embedding(chunks[i].code, FALSE),
                  start_line |-> chunks[i].start_line,
                  end_line   |-> chunks[i].end_line]>>)
         \o ChunkRowsFrom(repo_url, file_path, chunks, i + 1, f)

\* an iteration that writes the rows of its file at once
LegacyFileStep_AddsPerFile(st, repo_url, wc, file_path, f) ==
    IF ~Exists(wc, file_path) THEN st
    ELSE IF Fails(f, "io", file_path) THEN [st EXCEPT !.errors = @ + 1]
    ELSE LET rows == ChunkRowsFrom(repo_url, file_path,
                                   parse_and_extract_chunks(file_path, wc[file_path]), 1, f)
         IN  [st EXCEPT
                !.rows = @ \o rows,
                !.calls = @ \o <<Call("extract", <<>>, file_path, <<>>, TRUE),
                                 Call("add", <<>>, file_path, rows, TRUE)>>]

\* app/incremental_indexer.py: one iteration of `for file_path in file_paths`;
\* the file is read with errors="ignore", any exception ends the file
LegacyFileStep(st, repo_url, wc, file_path, f) ==
    IF ~Exists(wc, file_path) THEN st
    ELSE IF Fails(f, "io", file_path) THEN [st EXCEPT !.errors = @ + 1]
    ELSE LET st1 == [st EXCEPT !.calls =
                        Append(@, Call("extract", <<>>, file_path, <<>>,
                                       ~Fails(f, "parse", file_path)))]
         IN  IF Fails(f, "parse", file_path) THEN [st1 EXCEPT !.errors = @ + 1]
             ELSE [st1 EXCEPT !.rows = @ \o
                     ChunkRowsFrom(repo_url, file_path,
                                   parse_and_extract_chunks(file_path, wc[file_path]), 1, f)]

RECURSIVE LegacyFileLoop(_, _, _, _, _)
LegacyFileLoop(st, repo_url, wc, file_paths, f) ==
    IF file_paths = <<>> THEN st
    ELSE LegacyFileLoop(LegacyFileStep(st, repo_url, wc, Head(file_paths), f),
                        repo_url, wc, Tail(file_paths), f)

\* the single batch insert that ends the function
LegacyProcessEnd(bag, st, f) ==
    IF st.rows = <<>> THEN Phase(bag, st.calls, 0, "none")
    ELSE IF f.site = "add"
         THEN Phase(bag, Append(st.calls, Call("add", <<>>, <<>>, st.rows, FALSE)), 0, "none")
    ELSE Phase(TableAdd(bag, st.rows),
               Append(st.calls, Call("add", <<>>, <<>>, st.rows, TRUE)),
               Len(st.rows), "none")

Legacy_process_and_add_file_chunks(bag, repo_url, wc, file_paths, f) ==
    IF file_paths = <<>> THEN Phase(bag, <<>>, 0, "none")
    ELSE LegacyProcessEnd(bag,
            LegacyFileLoop([rows |-> <<>>, errors |-> 0, calls |-> <<>>],
                           repo_url, wc, file_paths, f), f)

-----------------------------------------------------------------------------
(* The runs: incremental_index_repository and index_repository *)

NoChanges == [raised |-> "none"] @@ EmptyChanges
NoGit == [ok |-> TRUE, entries |-> <<>>]

\* a commit the local repository holds once it is pulled up to `tp`
KnownCommit(c, tp) == c = "c1" \/ tp = "c2"

NoRun ==
    [op |-> "none", v |-> "none", url |-> <<>>, old |-> "c1", new |-> "c1",
     fault |-> NoFault, pre |-> EmptyDb, step |-> "none", changes |-> NoChanges,
     calls |-> <<>>, chunks_deleted |-> 0, chunks_added |-> 0, total_chunks |-> 0,
     procRaised |-> "none", status |-> "none", outcome |-> "none"]

\* a delete phase that also clears the added paths
FilesToDelete_AllChanged(cf) == cf.deleted \o cf.modified \o cf.added

\* files_to_delete = changed_files["deleted"] + changed_files["modified"]
FilesToDelete(cf) == cf.deleted \o cf.modified

\* files_to_add = changed_files["added"] + changed_files["modified"]
FilesToAdd(cf) == cf.added \o cf.modified

\* what a run leaves: the store, the working copy's commit, its record, and
\* what the diff command and get_changed_files gave
Run(d, hd, rec, git, cf) == [db |-> d, head |-> hd, last |-> rec, gitOut |-> git, changed |-> cf]

\* the `finally` block reads stats["total_chunks"]: the pending exception
\* leaves the function only when that key is set
Finally(pending, total_set) == IF total_set THEN pending ELSE "KeyError"

\* app/indexing/incremental_indexer.py
incremental_index_repository(d, hd, tp, tr, git0, cf0, repo_url, old_commit, new_commit, f) ==
    LET table_name == repo_url_to_table_name(repo_url)
        base == [NoRun EXCEPT !.op = "incremental", !.v = "indexing", !.url = repo_url,
                              !.old = old_commit, !.new = new_commit, !.fault = f,
                              !.pre = d, !.step = "init"]
    IN
    IF f.site = "model"
    THEN Run(d, hd, [base EXCEPT !.outcome = "RepositoryIndexingError"], git0, cf0)
    ELSE IF f.site \in {"conn", "table"}
    THEN Run(d, hd, [base EXCEPT !.outcome = "VectorDBError"], git0, cf0)
    ELSE
    LET d1 == create_code_table_if_not_exists(d, table_name) IN
    IF f.site = "pull"
    THEN Run(d1, hd, [base EXCEPT !.step = "pull", !.outcome = "RepositoryCloneError"],
             git0, cf0)
    ELSE
    LET wc  == tr[tp]
        git == [ok |-> /\ f.site # "diff"
                       /\ KnownCommit(old_commit, tp)
                       /\ KnownCommit(new_commit, tp),
                entries |-> GitDiffNameStatus(tr[old_commit], tr[new_commit])]
        cf  == get_changed_files("indexing", [ok |-> git.ok, text |-> DiffText(git.entries)])
    IN
    IF cf.raised # "none"
    THEN Run(d1, tp, [base EXCEPT !.step = "diff", !.status = "error",
                                  !.outcome = Finally(cf.raised, FALSE)], git, cf)
    ELSE
    LET del == IF cf.deleted # <<>> \/ cf.modified # <<>>
               THEN delete_file_chunks_from_db(d1[table_name], repo_url,
                                               FilesToDelete(cf), f)
               ELSE Phase(d1[table_name], <<>>, 0, "none")
        rec1 == [base EXCEPT !.changes = cf, !.step = "delete", !.calls = del.calls,
                             !.chunks_deleted = del.count]
    IN
    IF del.raised # "none"
    THEN Run([d1 EXCEPT ![table_name] = del.bag], tp,
             [rec1 EXCEPT !.status = "error",
                          !.outcome = Finally("VectorDBError", FALSE)], git, cf)
    ELSE
    LET ins == IF cf.added # <<>> \/ cf.modified # <<>>
               THEN process_and_add_file_chunks(del.bag, repo_url, wc,
                                                FilesToAdd(cf), f)
               ELSE Phase(del.bag, <<>>, 0, "none")
        rec2 == [rec1 EXCEPT !.step = "insert", !.calls = del.calls \o ins.calls,
                             !.chunks_added = ins.count, !.procRaised = ins.raised]
    IN
    IF ins.raised # "none"
    THEN Run([d1 EXCEPT ![table_name] = ins.bag], tp,
             [rec2 EXCEPT !.status = "error",
                          !.outcome = Finally("VectorDBError", FALSE)], git, cf)
    ELSE Run([d1 EXCEPT ![table_name] = ins.bag], tp,
             [rec2 EXCEPT !.step = "done", !.status = "success",
                          !.total_chunks = IF f.site = "len" THEN -1
                                           ELSE BagCardinality(ins.bag),
                          !.outcome = Finally("none", TRUE)], git, cf)

\* app/incremental_indexer.py: every failure is reported in the returned
\* dictionary; only the closing len(code_table) can raise
Legacy_incremental_index_repository(d, hd, tp, tr, git0, cf0, repo_url, old_commit, new_commit, f) ==
    LET table_name == repo_url_to_table_name(repo_url)
        base == [NoRun EXCEPT !.op = "incremental", !.v = "legacy", !.url = repo_url,
                              !.old = old_commit, !.new = new_commit, !.fault = f,
                              !.pre = d, !.step = "init"]
    IN
    IF f.site \in {"model", "conn", "table"}
    THEN Run(d, hd, [base EXCEPT !.status = "error"], git0, cf0)
    ELSE
    LET d1 == create_code_table_if_not_exists(d, table_name) IN
    IF f.site = "pull"
    THEN Run(d1, hd, [base EXCEPT !.step = "pull", !.status = "error"], git0, cf0)
    ELSE
    LET wc  == tr[tp]
        git == [ok |-> /\ f.site # "diff"
                       /\ KnownCommit(old_commit, tp)
                       /\ KnownCommit(new_commit, tp),
                entries |-> GitDiffNameStatus(tr[old_commit], tr[new_commit])]
        cf  == get_changed_files("legacy", [ok |-> git.ok, text |-> DiffText(git.entries)])
        del == Legacy_delete_file_chunks_from_db(d1[table_name], repo_url,
                                                 FilesToDelete(cf), f)
        ins == Legacy_process_and_add_file_chunks(del.bag, repo_url, wc,
                                                  FilesToAdd(cf), f)
        rec == [base EXCEPT !.changes = cf, !.calls = del.calls \o ins.calls,
                            !.chunks_deleted = del.count, !.chunks_added = ins.count]
    IN
    IF f.site = "len"
    THEN Run([d1 EXCEPT ![table_name] = ins.bag], tp,
             [rec EXCEPT !.step = "insert", !.outcome = "Exception"], git, cf)
    ELSE Run([d1 EXCEPT ![table_name] = ins.bag], tp,
             [rec EXCEPT !.step = "done", !.status = "success",
                         !.total_chunks = BagCardinality(ins.bag)], git, cf)

\* parameters get_embedding_model declares (app/indexing/embedding_generator.py)
\* and arguments index_repository passes it (app/indexing/indexer.py)
EmbeddingModelParams == 0
IndexerModelArgs == 1

\* files in directories of a working copy: a package, the code host's
\* workflow directory, and the clone's own metadata directory
SUB_PY == <<"d", "/", "e", ".", "p", "y">>
GH_PY == <<".", "g", "i", "t", "h", "u", "b", "/", "w", ".", "p", "y">>
GITDIR_PY == <<".", "g", "i", "t", "/", "h", ".", "p", "y">>
DOT_GIT == <<".", "g", "i", "t">>

\* os.walk is top-down: the files of the top directory come first
WalkOrder == PathOrder \o <<SUB_PY, GH_PY, GITDIR_PY>>

\* REPO_CLONE_DIR, "./repos" shortened
REPO_CLONE_DIR == <<".", "/", "r">>

\* os.path.join(repo_clone_dir, repo_name)
LocalRepoPath(repo_url) ==
    REPO_CLONE_DIR \o <<"/">>
        \o replace(join(LastTwo(split(repo_url, "/")), "/"), DOT_GIT, <<>>)

\* the directory os.walk reports for a file of the working copy
WalkRoot(local_repo_path, p) ==
    LET parts == split(p, "/")
    IN  join(<<local_repo_path>> \o SubSeq(parts, 1, Len(parts) - 1), "/")

\* ".git" in root
DotGitInRoot(root) == contains(root, DOT_GIT)

\* the files os.walk finds with the tracked extension, in listing order
RECURSIVE WalkPython(_, _, _)
WalkPython(local_repo_path, wc, i) ==
    IF i > Len(WalkOrder) THEN <<>>
    ELSE (IF /\ Exists(wc, WalkOrder[i])
             /\ ~DotGitInRoot(WalkRoot(local_repo_path, WalkOrder[i]))
             /\ endswith(WalkOrder[i], S_PY)
          THEN <<WalkOrder[i]>> ELSE <<>>) \o WalkPython(local_repo_path, wc, i + 1)

\* _process_single_file: the rows of one file; any exception gives none
ProcessSingleFile(repo_url, wc, file_path, f) ==
    IF Fails(f, "io", file_path) \/ Fails(f, "parse", file_path) THEN <<>>
    ELSE ChunkRowsFrom(repo_url, file_path,
                       parse_and_extract_chunks(file_path, wc[file_path]), 1, f)

\* asyncio.gather(*tasks): the lists of all files, in the order of the files
RECURSIVE GatherRows(_, _, _, _)
GatherRows(repo_url, wc, files, f) ==
    IF files = <<>> THEN <<>>
    ELSE ProcessSingleFile(repo_url, wc, Head(files), f)
         \o GatherRows(repo_url, wc, Tail(files), f)

\* the calls to the extractor, one per file that could be read
RECURSIVE GatherCalls(_, _)
GatherCalls(files, f) ==
    IF files = <<>> THEN <<>>
    ELSE (IF Fails(f, "io", Head(files)) THEN <<>>
          ELSE <<Call("extract", <<>>, Head(files), <<>>, ~Fails(f, "parse", Head(files)))>>)
         \o GatherCalls(Tail(files), f)

\* index_repository of app/indexing/indexer.py (v = "indexing") and of
\* app/indexer.py (v = "legacy"): they differ in how the model is obtained
index_repository(v, d, hd, tp, tr, repo_url, f) ==
    LET table_name == repo_url_to_table_name(repo_url)
        base == [NoRun EXCEPT !.op = "index", !.v = v, !.url = repo_url, !.fault = f,
                              !.pre = d, !.step = "init", !.status = "aborted"]
    IN
    IF \/ (v = "indexing" /\ IndexerModelArgs # EmbeddingModelParams)
       \/ f.site \in {"model", "conn"}
    THEN Run(d, hd, base, NoGit, NoChanges)
    ELSE IF f.site = "table"
    THEN Run(drop_table(d, table_name), hd, base, NoGit, NoChanges)
    ELSE
    LET d1 == create_code_table_if_not_exists(drop_table(d, table_name), table_name) IN
    IF f.site = "pull"
    THEN Run(d1, hd, [base EXCEPT !.step = "pull"], NoGit, NoChanges)
    ELSE
    LET wc    == tr[tp]
        files == WalkPython(LocalRepoPath(repo_url), wc, 1)
        rows  == GatherRows(repo_url, wc, files, f)
        calls == GatherCalls(files, f)
        added == rows # <<>> /\ f.site # "add"
        bag   == IF added THEN TableAdd(d1[table_name], rows) ELSE d1[table_name]
        rec   == [base EXCEPT
                    !.step = "insert",
                    !.calls = IF rows = <<>> THEN calls
                              ELSE Append(calls, Call("add", <<>>, <<>>, rows, added)),
                    !.chunks_added = IF added THEN Len(rows) ELSE 0]
    IN
    IF f.site = "len"
    THEN Run([d1 EXCEPT ![table_name] = bag], tp,
             [rec EXCEPT !.outcome = "Exception"], NoGit, NoChanges)
    ELSE Run([d1 EXCEPT ![table_name] = bag], tp,
             [rec EXCEPT !.step = "done", !.status = "success",
                         !.total_chunks = BagCardinality(bag)], NoGit, NoChanges)

-----------------------------------------------------------------------------
(* Unified Diff Parser: parse_diff (app/diff_parser.py) *)

DELIM == <<"d", "i", "f", "f", " ", "-", "-", "g", "i", "t", " ">>
B_TOKEN == <<" ", "b", "/">>

\* str.split(pat) for a separator of any length: non-overlapping, left to right
RECURSIVE SplitStr(_, _, _, _)
SplitStr(s, pat, i, from) ==
    IF i + Len(pat) - 1 > Len(s) THEN <<SubSeq(s, from, Len(s))>>
    ELSE IF SubSeq(s, i, i + Len(pat) - 1) = pat
         THEN <<SubSeq(s, from, i - 1)>> \o SplitStr(s, pat, i + Len(pat), i + Len(pat))
    ELSE SplitStr(s, pat, i + 1, from)

split_on(s, pat) == SplitStr(s, pat, 1, 1)

DigitChars == <<"0", "1", "2", "3", "4", "5", "6", "7", "8", "9">>

IsDigit(c) == \E d \in 1..Len(DigitChars) : DigitChars[d] = c

DigitVal(c) == (CHOOSE d \in 1..Len(DigitChars) : DigitChars[d] = c) - 1

RECURSIVE DigitsValue(_)
DigitsValue(s) ==
    IF Len(s) = 1 THEN DigitVal(s[1])
    ELSE DigitsValue(SubSeq(s, 1, Len(s) - 1)) * 10 + DigitVal(s[Len(s)])

\* int(s): surrounding blanks and one sign are accepted, anything else that
\* is not a run of digits is a ValueError
int(s) ==
    LET t      == strip(s)
        signed == t # <<>> /\ t[1] \in {"+", "-"}
        body   == IF signed THEN Tail(t) ELSE t
    IN  IF body # <<>> /\ \A i \in 1..Len(body) : IsDigit(body[i])
        THEN [ok |-> TRUE,
              value |-> IF signed /\ t[1] = "-" THEN 0 - DigitsValue(body)
                        ELSE DigitsValue(body)]
        ELSE [ok |-> FALSE, value |-> 0]

FileDiff(path, content, line_mapping) ==
    [path |-> path, content |-> content, line_mapping |-> line_mapping]

\* position_in_diff = 0, current_new_line_num = 0, an empty line_mapping
ScanStart_OneBehind ==
    [position_in_diff |-> 0 - 1, current_new_line_num |-> 0,
     line_mapping |-> <<>>, raised |-> "none"]

ScanStart ==
    [position_in_diff |-> 0, current_new_line_num |-> 0,
     line_mapping |-> <<>>, raised |-> "none"]

\* one turn of the loop over the lines of a segment
ScanLine(st, line) ==
    LET position_in_diff == st.position_in_diff + 1
        at == [st EXCEPT !.position_in_diff = position_in_diff]
    IN  IF startswith(line, <<"@", "@">>)
        THEN LET tokens == split(line, SP)
             IN  IF Len(tokens) < 3
                 THEN [at EXCEPT !.raised = "IndexError"]
                 ELSE LET hunk_info == tokens[3]
                          first     == split(hunk_info, ",")[1]
                          n         == int(SubSeq(first, 2, Len(first)))
                      IN  IF n.ok
                          THEN [at EXCEPT !.current_new_line_num = n.value]
                          ELSE [at EXCEPT !.raised = "ValueError"]
        ELSE IF startswith(line, <<"+">>) /\ ~startswith(line, <<"+", "+", "+">>)
        THEN [at EXCEPT
                 !.line_mapping = (st.current_new_line_num :> position_in_diff)
                                      @@ st.line_mapping,
                 !.current_new_line_num = st.current_new_line_num + 1]
        ELSE IF startswith(line, <<" ">>) /\ ~startswith(line, <<"-", "-", "-">>)
        THEN [at EXCEPT !.current_new_line_num = st.current_new_line_num + 1]
        ELSE at

RECURSIVE ScanLines(_, _, _)
ScanLines(lines, i, st) ==
    IF i > Len(lines) \/ st.raised # "none" THEN st
    ELSE ScanLines(lines, i + 1, ScanLine(st, lines[i]))

\* the body of the try block for one segment
ParseSegment(file_diff_raw) ==
    LET lines      == split(file_diff_raw, NL)
        first_line == lines[1]
        parts      == split_on(first_line, B_TOKEN)
    IN  IF Len(parts) < 2
        THEN [raised |-> "IndexError", diff |-> FileDiff(<<>>, <<>>, <<>>)]
        ELSE LET path    == strip(parts[2])
                 content == DELIM \o file_diff_raw
                 scan    == ScanLines(lines, 1, ScanStart)
             IN  [raised |-> scan.raised,
                  diff   |-> FileDiff(path, content, scan.line_mapping)]

\* except (IndexError, ValueError)
Caught_IndexErrorOnly == {"IndexError"}

Caught == {"IndexError", "ValueError"}

\* a loop over the segments that ends at the first segment given up
RECURSIVE StopAtFailure(_, _, _)
StopAtFailure(file_diffs_raw, i, parsed_diffs) ==
    IF i > Len(file_diffs_raw) THEN [raised |-> "none", diffs |-> parsed_diffs]
    ELSE LET r == ParseSegment(file_diffs_raw[i])
         IN  IF r.raised = "none"
             THEN StopAtFailure(file_diffs_raw, i + 1, Append(parsed_diffs, r.diff))
             ELSE IF r.raised \in Caught
             THEN [raised |-> "none", diffs |-> parsed_diffs]
             ELSE [raised |-> r.raised, diffs |-> parsed_diffs]

\* the loop over the segments: a caught failure goes on with the next one
RECURSIVE ParseSegments(_, _, _)
ParseSegments(file_diffs_raw, i, parsed_diffs) ==
    IF i > Len(file_diffs_raw) THEN [raised |-> "none", diffs |-> parsed_diffs]
    ELSE LET r == ParseSegment(file_diffs_raw[i])
         IN  IF r.raised = "none"
             THEN ParseSegments(file_diffs_raw, i + 1, Append(parsed_diffs, r.diff))
             ELSE IF r.raised \in Caught
             THEN ParseSegments(file_diffs_raw, i + 1, parsed_diffs)
             ELSE [raised |-> r.raised, diffs |-> parsed_diffs]

parse_diff_StopAtFailure(diff_text) ==
    StopAtFailure(Tail(split_on(diff_text, DELIM)), 1, <<>>)

parse_diff(diff_text) ==
    ParseSegments(Tail(split_on(diff_text, DELIM)), 1, <<>>)

NotParsed == [raised |-> "pending", diffs |-> <<>>]

-----------------------------------------------------------------------------
(* Retriever: retrieve_relevant_code_chunks (app/rag_retriever.py) *)

\* largest result cap (limit) a retrieval is called with
MaxLimit == 2

NO_SNIPPETS == "No relevant code snippets found in the existing codebase."
RETRIEVAL_ERROR == "Error: Could not retrieve context from the codebase."

\* conn: the store is unreachable; names: listing the tables fails; open:
\* opening the table fails; model: the embedding model cannot be loaded;
\* embed: encoding the query fails; search: the search fails
RetrieveFaults == {"none", "conn", "names", "open", "model", "embed", "search"}

\* format_retrieved_chunks: the pieces of the prompt text, one per snippet
format_retrieved_chunks(chunks) ==
    IF chunks = <<>> THEN <<NO_SNIPPETS>>
    ELSE <<"--- Relevant Code Snippets from the Codebase ---">>
         \o [i \in 1..Len(chunks) |->
                [snippet    |-> i,
                 file_path  |-> chunks[i].file_path,
                 start_line |-> chunks[i].start_line,
                 end_line   |-> chunks[i].end_line,
                 code_chunk |-> chunks[i].code_chunk]]
         \o <<"--- End of Snippets ---">>

\* table.search(v).where("file_path != '...'").limit(limit).to_list(): the
\* ranking is the store's own, so any choice of `limit` eligible rows
RECURSIVE Rankings(_, _)
Rankings(S, n) ==
    IF n = 0 \/ S = {} THEN {<<>>}
    ELSE UNION {{<<r>> \o rest : rest \in Rankings(S \ {r}, n - 1)} : r \in S}

SearchResults(table, file_path, limit) ==
    Rankings({r \in BagToSet(table) : r.file_path # file_path}, limit)

\* table_name not in db_conn.table_names(), answered as if every table existed
TableKnown_Always(d, table_name) == TRUE

TableKnown(d, table_name) == table_name \in DOMAIN d

Retrieved(raised, text, calls) == [raised |-> raised, text |-> text, calls |-> calls]

\* the body of the try block; hits is what the store's search gives
RetrieveBody(d, repo_url, file_path, diff_content, hits, fault) ==
    LET table_name == repo_url_to_table_name(repo_url)
        c1 == <<"get_lancedb_conn">>
        c2 == Append(c1, "table_names")
        c3 == Append(c2, "open_table")
        c4 == Append(c3, "initialize_embedding_model")
        c5 == Append(c4, "get_embedding")
        c6 == Append(c5, "search")
    IN  IF fault = "conn" THEN Retrieved("Exception", <<>>, c1)
        ELSE IF fault = "names" THEN Retrieved("Exception", <<>>, c2)
        ELSE IF ~TableKnown(d, table_name) THEN Retrieved("none", <<>>, c2)
        ELSE IF fault = "open" \/ table_name \notin DOMAIN d
        THEN Retrieved("Exception", <<>>, c3)
        ELSE IF fault = "model" THEN Retrieved("Exception", <<>>, c4)
        ELSE IF get_embedding(diff_content, fault = "embed") = <<>>
        THEN Retrieved("none", <<>>, c5)
        ELSE IF fault = "search" THEN Retrieved("Exception", <<>>, c6)
        ELSE Retrieved("none", format_retrieved_chunks(hits), c6)

\* except Exception
RetrieverCaught == {"Exception"}

retrieve_relevant_code_chunks(d, repo_url, file_path, diff_content, hits, fault) ==
    LET r == RetrieveBody(d, repo_url, file_path, diff_content, hits, fault)
    IN  IF r.raised \in RetrieverCaught
        THEN Retrieved("none", <<RETRIEVAL_ERROR>>, r.calls)
        ELSE r

NotRetrieved ==
    [args |-> <<>>, fault |-> "none",
     result |-> Retrieved("pending", <<>>, <<>>)]

\* no table name was asked for
NotNamed == <<>>
Unnamed == [urls |-> <<>>, names |-> NotNamed]

\* index_repository has not built its tasks
NoGather ==
    [phase |-> "none", repo_url |-> <<>>, wc |-> <<>>, fault |-> NoFault,
     files |-> <<>>, pc |-> <<>>, at |-> <<>>, thread |-> <<>>,
     all_chunks_from_tasks |-> <<>>, calls |-> <<>>, table |-> EmptyBag]

\* a review task that has not ended
NoResult == [failed |-> FALSE, inline_comments |-> <<>>, about |-> 0]

\* no pull request is being reviewed
NoReview ==
    [phase |-> "none", file_diffs |-> <<>>, result |-> <<>>, finished |-> <<>>,
     all_inline_comments |-> <<>>]

-----------------------------------------------------------------------------
(* The state machine *)

Variants == {"legacy", "indexing"}

Init ==
    /\ variant \in Variants
    /\ tree \in Trees
    /\ tip = "c1"
    /\ head = "none"
    /\ db = EmptyDb
    /\ last = NoRun
    /\ budget = MaxFaultyRuns
    /\ gitOut = NoGit
    /\ changed = NoChanges
    /\ diffDoc = <<>>
    /\ diffText = <<>>
    /\ fileDiffs = NotParsed
    /\ tasks = <<>>
    /\ inflight = <<>>
    /\ retrieved = NotRetrieved
    /\ named = Unnamed
    /\ gather = NoGather
    /\ review = NoReview

\* a push moves the remote to the second commit
Push ==
    /\ tip = "c1"
    /\ tip' = "c2"
    /\ UNCHANGED <<variant, tree, head, db, last, budget, gitOut, changed>>
    /\ UNCHANGED <<parseVars, hookVars, retrieved, named, gather, review>>

\* the deployment moves from app/*.py to app/indexing/*.py; the store stays
Upgrade ==
    /\ variant = "legacy"
    /\ variant' = "indexing"
    /\ UNCHANGED <<tree, tip, head, db, last, budget, gitOut, changed>>
    /\ UNCHANGED <<parseVars, hookVars, retrieved, named, gather, review>>

Apply(run) ==
    /\ db' = run.db
    /\ head' = run.head
    /\ last' = run.last
    /\ gitOut' = run.gitOut
    /\ changed' = run.changed
    /\ budget' = IF run.last.fault = NoFault THEN budget ELSE budget - 1
    /\ UNCHANGED <<variant, tree, tip>>
    /\ UNCHANGED <<parseVars, hookVars, retrieved, named, gather, review>>

\* the installation webhook: a full index of the repository
IndexRepository ==
    \E repo_url \in RepoUrls, f \in FaultsFor(tree, budget) :
        Apply(index_repository(variant, db, head, tip, tree, repo_url, f))

\* the push webhook: an incremental index between two commits
IncrementalIndex ==
    \E repo_url \in {U_GIT}, old_commit \in Commits, new_commit \in Commits,
       f \in FaultsFor(tree, budget) :
        /\ BagCardinality(Rows(db, repo_url_to_table_name(repo_url))) <= MaxRows
        /\ Apply(IF variant = "legacy"
                 THEN Legacy_incremental_index_repository(
                          db, head, tip, tree, gitOut, changed,
                          repo_url, old_commit, new_commit, f)
                 ELSE incremental_index_repository(
                          db, head, tip, tree, gitOut, changed,
                          repo_url, old_commit, new_commit, f))

Next == Push \/ Upgrade \/ IndexRepository \/ IncrementalIndex

Spec == Init /\ [][Next]_vars

-----------------------------------------------------------------------------
(* The change-set detector alone, on bounded diff outputs *)

Statuses1 == {<<"A">>, <<"M">>, <<"D">>, <<"T">>}
Statuses2 == {<<"R", "9">>, <<"C", "7">>}

DiffEntries ==
    {Entry(st, <<p>>) : st \in Statuses1, p \in Paths}
    \cup {Entry(st, pq) : st \in Statuses2, pq \in {<<A_PY, B_PY>>, <<N_MD, A_PY>>}}
    \cup {Entry(<<>>, <<>>), Entry(<<"x">>, <<>>)}

RECURSIVE SeqsUpTo(_, _)
SeqsUpTo(S, n) ==
    IF n = 0 THEN {<<>>}
    ELSE SeqsUpTo(S, n - 1)
         \cup {Append(q, x) : q \in {r \in SeqsUpTo(S, n - 1) : Len(r) = n - 1}, x \in S}

Pending == [raised |-> "pending"] @@ EmptyChanges

InitDiff ==
    /\ variant \in Variants
    /\ tree \in {t \in Trees : \A c \in Commits : DOMAIN t[c] \cap PyPaths = {}}
    /\ tip = "c1"
    /\ head = "none"
    /\ db = EmptyDb
    /\ last = NoRun
    /\ budget = 0
    /\ gitOut \in [ok : BOOLEAN, entries : SeqsUpTo(DiffEntries, MaxLines)]
    /\ changed = Pending
    /\ diffDoc = <<>>
    /\ diffText = <<>>
    /\ fileDiffs = NotParsed
    /\ tasks = <<>>
    /\ inflight = <<>>
    /\ retrieved = NotRetrieved
    /\ named = Unnamed
    /\ gather = NoGather
    /\ review = NoReview

DetectChanges ==
    /\ changed = Pending
    /\ changed' = get_changed_files(variant, [ok |-> gitOut.ok,
                                              text |-> DiffText(gitOut.entries)])
    /\ UNCHANGED <<variant, tree, tip, head, db, last, budget, gitOut>>
    /\ UNCHANGED <<parseVars, hookVars, retrieved, named, gather, review>>

NextDiff == DetectChanges

SpecDiff == InitDiff /\ [][NextDiff]_vars

-----------------------------------------------------------------------------
(* Unified diffs as the code host writes them *)

\* longest hunk body, in lines, of the first file of a diff
MaxBody == 2

X_F == <<"x">>
Y_F == <<"y">>
X_PY == <<"x", ".", "p", "y">>

Line(tag, text) == [tag |-> tag, text |-> text]

CTX == Line(" ", <<"c">>)
ADD == Line("+", <<"a">>)
REM == Line("-", <<"r">>)
\* the marker "\ No newline at end of file", shortened
NONL == Line("\\", <<" ", "N">>)
\* an added line whose own text starts with "++", such as "++i"
ADD_INCR == Line("+", <<"+", "+", "i">>)
\* added lines whose own text holds the delimiter
ADD_DELIM == Line("+", DELIM \o <<"a", "/", "z", " ", "b", "/", "z">>)
ADD_DELIM_PLUS == Line("+", DELIM \o <<"+", "q", " ", "b", "/", "z">>)

BodyLines == {CTX, ADD, REM, NONL, ADD_INCR, ADD_DELIM, ADD_DELIM_PLUS}

Hunk(old_start, new_start, style, body) ==
    [old_start |-> old_start, new_start |-> new_start, style |-> style, body |-> body]

Block(kind, path, hunks) == [kind |-> kind, path |-> path, hunks |-> hunks]

CountTags(body, tags) == Cardinality({i \in 1..Len(body) : body[i].tag \in tags})

\* "start,count", and "start" alone when the count is one
Range(start, count) ==
    IF count = 1 THEN str(start) ELSE str(start) \o <<",">> \o str(count)

HunkHeader(h) ==
    LET old == Range(h.old_start, CountTags(h.body, {" ", "-"}))
        new == IF h.style = "nonnumeric" THEN <<"x">>
               ELSE Range(h.new_start, CountTags(h.body, {" ", "+"}))
    IN  IF h.style = "short" THEN <<"@", "@">>
        ELSE <<"@", "@", " ", "-">> \o old \o <<" ", "+">> \o new \o <<" ", "@", "@">>

RECURSIVE Lines(_)
Lines(ls) == IF ls = <<>> THEN <<>> ELSE Head(ls) \o <<NL>> \o Lines(Tail(ls))

HunkLines(h) ==
    <<HunkHeader(h)>> \o [i \in 1..Len(h.body) |-> <<h.body[i].tag>> \o h.body[i].text]

RECURSIVE HunksLines(_)
HunksLines(hs) == IF hs = <<>> THEN <<>> ELSE HunkLines(Head(hs)) \o HunksLines(Tail(hs))

BlockLines(b) ==
    <<DELIM \o <<"a", "/">> \o b.path
          \o (IF b.kind = "nopath" THEN <<>> ELSE <<" ", "b", "/">> \o b.path),
      <<"-", "-", "-", " ", "a", "/">> \o b.path,
      <<"+", "+", "+", " ", "b", "/">> \o b.path>>
    \o HunksLines(b.hunks)

RECURSIVE UnifiedDiff(_)
UnifiedDiff(doc) ==
    IF doc = <<>> THEN <<>> ELSE Lines(BlockLines(Head(doc))) \o UnifiedDiff(Tail(doc))

WellFormed(b) ==
    /\ b.kind = "file"
    /\ \A i \in 1..Len(b.hunks) : b.hunks[i].style = "git"

ValidDiff(doc) == \A i \in 1..Len(doc) : WellFormed(doc[i])

Bodies == SeqsUpTo(BodyLines, MaxBody) \ {<<>>}

FirstHunks == {Hunk(s, s, "git", body) : s \in {1, 12}, body \in Bodies}

LaterHunks ==
    {<<>>,
     <<Hunk(20, 20, "git", <<CTX, ADD>>)>>,
     <<Hunk(20, 20, "git", <<ADD>>)>>,
     <<Hunk(20, 20, "nonnumeric", <<ADD>>)>>,
     <<Hunk(20, 20, "short", <<ADD>>)>>}

FirstBlocks == {Block("file", X_F, <<h>> \o t) : h \in FirstHunks, t \in LaterHunks}

Y_BLOCK == Block("file", Y_F, <<Hunk(3, 3, "git", <<ADD>>)>>)
NOPATH_BLOCK == Block("nopath", Y_F, <<Hunk(3, 3, "git", <<ADD>>)>>)

LaterBlocks == {<<>>, <<Y_BLOCK>>, <<NOPATH_BLOCK>>, <<NOPATH_BLOCK, Y_BLOCK>>}

ScenarioDoc ==
    <<Block("file", X_PY,
            <<Hunk(1, 1, "git",
                   <<Line(" ", <<"d", "e", "f", " ", "f", "(", ")", ":">>),
                     Line("+", <<" ", " ", " ", " ", "r", "e", "t", "u", "r", "n", " ", "1">>),
                     Line(" ", <<" ", " ", " ", " ", "p", "a", "s", "s">>)>>)>>)>>

ScenarioText ==
    <<"d", "i", "f", "f", " ", "-", "-", "g", "i", "t", " ", "a", "/", "x",
      ".", "p", "y", " ", "b", "/", "x", ".", "p", "y", "\n", "-", "-",
      "-", " ", "a", "/", "x", ".", "p", "y", "\n", "+", "+", "+", " ",
      "b", "/", "x", ".", "p", "y", "\n", "@", "@", " ", "-", "1", ",",
      "2", " ", "+", "1", ",", "3", " ", "@", "@", "\n", " ", "d", "e",
      "f", " ", "f", "(", ")", ":", "\n", "+", " ", " ", " ", " ", "r",
      "e", "t", "u", "r", "n", " ", "1", "\n", " ", " ", " ", " ", " ",
      "p", "a", "s", "s", "\n">>

Docs ==
    {<<>>, ScenarioDoc} \cup {<<b>> \o t : b \in FirstBlocks, t \in LaterBlocks}

-----------------------------------------------------------------------------
(* The diff parser alone, on bounded unified diffs *)

InitParse ==
    /\ variant = "indexing"
    /\ tree \in {t \in Trees : \A c \in Commits : DOMAIN t[c] \cap PyPaths = {}}
    /\ tip = "c1"
    /\ head = "none"
    /\ db = EmptyDb
    /\ last = NoRun
    /\ budget = 0
    /\ gitOut = NoGit
    /\ changed = NoChanges
    /\ diffDoc \in Docs
    /\ diffText = UnifiedDiff(diffDoc)
    /\ fileDiffs = NotParsed
    /\ tasks = <<>>
    /\ inflight = <<>>
    /\ retrieved = NotRetrieved
    /\ named = Unnamed
    /\ gather = NoGather
    /\ review = NoReview

ParseDiff ==
    /\ fileDiffs = NotParsed
    /\ fileDiffs' = parse_diff(diffText)
    /\ UNCHANGED <<variant, tree, tip, head, db, last, budget, gitOut, changed,
                   diffDoc, diffText>>
    /\ UNCHANGED <<hookVars, retrieved, named, gather, review>>

NextParse == ParseDiff

SpecParse == InitParse /\ [][NextParse]_vars

-----------------------------------------------------------------------------
(* The full indexer alone, on working copies with directories *)

WalkPaths == {A_PY, N_MD, SUB_PY, GH_PY, GITDIR_PY}

\* what a clone leaves on disk: the files of the commit, in their
\* directories, and possibly a script in the clone's .git directory
WalkTrees ==
    {[c \in Commits |-> [p \in S |-> IF endswith(p, S_PY) THEN K1 ELSE KN]] :
        S \in SUBSET WalkPaths}

InitWalk ==
    /\ variant \in Variants
    /\ tree \in WalkTrees
    /\ tip = "c1"
    /\ head = "none"
    /\ db = EmptyDb
    /\ last = NoRun
    /\ budget = 0
    /\ gitOut = NoGit
    /\ changed = NoChanges
    /\ diffDoc = <<>>
    /\ diffText = <<>>
    /\ fileDiffs = NotParsed
    /\ tasks = <<>>
    /\ inflight = <<>>
    /\ retrieved = NotRetrieved
    /\ named = Unnamed
    /\ gather = NoGather
    /\ review = NoReview

NextWalk == IndexRepository

SpecWalk == InitWalk /\ [][NextWalk]_vars

-----------------------------------------------------------------------------
(* The retriever alone, on the stores a full index leaves *)

RetrieveDbs ==
    {EmptyDb}
    \cup {(repo_url_to_table_name(U_GIT) :>
                SeqToBag(GatherRows(U_GIT, snap,
                                    WalkPython(LocalRepoPath(U_GIT), snap, 1), NoFault))) :
             snap \in PySnapshots}

InitRetrieve ==
    /\ variant = "legacy"
    /\ tree \in {t \in Trees : \A c \in Commits : DOMAIN t[c] \cap PyPaths = {}}
    /\ tip = "c1"
    /\ head = "none"
    /\ db \in RetrieveDbs
    /\ last = NoRun
    /\ budget = 0
    /\ gitOut = NoGit
    /\ changed = NoChanges
    /\ diffDoc = <<>>
    /\ diffText = <<>>
    /\ fileDiffs = NotParsed
    /\ tasks = <<>>
    /\ inflight = <<>>
    /\ retrieved = NotRetrieved
    /\ named = Unnamed
    /\ gather = NoGather
    /\ review = NoReview

Retrieve ==
    \E repo_url \in {U_GIT, U_WEB, U_OTHER}, file_path \in PyPaths,
       diff_content \in {<<>>, <<"+", "a">>}, limit \in 1..MaxLimit,
       fault \in RetrieveFaults :
        \E hits \in SearchResults(Rows(db, repo_url_to_table_name(repo_url)),
                                  file_path, limit) :
            /\ retrieved = NotRetrieved
            /\ retrieved' =
                   [args   |-> <<repo_url, file_path, diff_content, limit>>,
                    fault  |-> fault,
                    result |-> retrieve_relevant_code_chunks(
                                   db, repo_url, file_path, diff_content, hits, fault)]
            /\ UNCHANGED <<variant, tree, tip, head, db, last, budget, gitOut, changed>>
            /\ UNCHANGED <<parseVars, hookVars, named, gather, review>>

NextRetrieve == Retrieve

SpecRetrieve == InitRetrieve /\ [][NextRetrieve]_vars

-----------------------------------------------------------------------------
(* The webhook handlers and their background tasks on the event loop *)

\* webhook deliveries accepted in one behaviour
MaxDeliveries == 2

HookRepos == {U_GIT, U_OTHER}

\* an installation names repositories; a push names one repository
HookEvents ==
    {[event |-> "installation", repositories |-> rs] :
        rs \in {<<U_GIT>>, <<U_OTHER>>, <<U_GIT, U_OTHER>>}}
    \cup {[event |-> "push", repositories |-> <<r>>] : r \in HookRepos}

\* background_tasks.add_task(...): one task per repository of the payload
TasksOf(e) ==
    [i \in 1..Len(e.repositories) |->
        [op  |-> IF e.event = "push" THEN "incremental" ELSE "index",
         url |-> e.repositories[i]]]

Idle == [op |-> "none", url |-> <<>>, mode |-> "idle", files |-> <<>>]

\* a run that holds the event loop: no other coroutine moves meanwhile
LoopFree == \A q \in 1..Len(inflight) : inflight[q].mode # "running"

\* index_repository up to `await asyncio.gather(*tasks)`: the coroutine is
\* suspended there only when it has a task to wait for
AwaitsGather(v, tp, tr, repo_url) ==
    /\ ~(v = "indexing" /\ IndexerModelArgs # EmbeddingModelParams)
    /\ WalkPython(LocalRepoPath(repo_url), tr[tp], 1) # <<>>

InitHooks ==
    /\ variant \in Variants
    /\ tree \in {t \in Trees : FaultTree(t) \/ \A c \in Commits : DOMAIN t[c] \cap PyPaths = {}}
    /\ tip = "c2"
    /\ head = "none"
    /\ db = EmptyDb
    /\ last = NoRun
    /\ budget = 0
    /\ gitOut = NoGit
    /\ changed = NoChanges
    /\ diffDoc = <<>>
    /\ diffText = <<>>
    /\ fileDiffs = NotParsed
    /\ tasks = <<>>
    /\ inflight = <<>>
    /\ retrieved = NotRetrieved
    /\ named = Unnamed
    /\ gather = NoGather
    /\ review = NoReview

\* github_webhook: the tasks of the delivery are queued, the response returns
Deliver ==
    \E e \in HookEvents :
        /\ LoopFree
        /\ Len(tasks) < MaxDeliveries
        /\ tasks' = Append(tasks, TasksOf(e))
        /\ inflight' = Append(inflight, Idle)
        /\ UNCHANGED <<variant, tree, tip, head, db, last, budget, gitOut, changed>>
        /\ UNCHANGED <<parseVars, retrieved, named, gather, review>>

\* the tasks of one delivery run one after the other; those of different
\* deliveries are separate coroutines of the same loop
StartTask ==
    \E q \in 1..Len(tasks) :
        /\ LoopFree
        /\ inflight[q] = Idle
        /\ tasks[q] # <<>>
        /\ inflight' = [inflight EXCEPT ![q] =
                           [op |-> Head(tasks[q]).op, url |-> Head(tasks[q]).url,
                            mode |-> "running", files |-> <<>>]]
        /\ tasks' = [tasks EXCEPT ![q] = Tail(@)]
        /\ UNCHANGED <<variant, tree, tip, head, db, last, budget, gitOut, changed>>
        /\ UNCHANGED <<parseVars, retrieved, named, gather, review>>

\* process_installation_event up to its suspension: a full index that has
\* per-file tasks stops at the gather, the table dropped and created anew
RunToGather ==
    \E q \in 1..Len(inflight) :
        /\ inflight[q].mode = "running"
        /\ inflight[q].op = "index"
        /\ AwaitsGather(variant, tip, tree, inflight[q].url)
        /\ db' = create_code_table_if_not_exists(
                     drop_table(db, repo_url_to_table_name(inflight[q].url)),
                     repo_url_to_table_name(inflight[q].url))
        /\ head' = tip
        /\ last' = [NoRun EXCEPT !.op = "index", !.v = variant,
                                 !.url = inflight[q].url, !.pre = db,
                                 !.step = "gather", !.status = "running"]
        /\ inflight' = [inflight EXCEPT ![q] =
                           [@ EXCEPT !.mode = "awaiting",
                                     !.files = WalkPython(LocalRepoPath(inflight[q].url),
                                                          tree[tip], 1)]]
        /\ UNCHANGED <<variant, tree, tip, budget, gitOut, changed, tasks>>
        /\ UNCHANGED <<parseVars, retrieved, named, gather, review>>

\* the run of a task that never suspends
HookRun(r) ==
    IF r.op = "index"
    THEN index_repository(variant, db, head, tip, tree, r.url, NoFault)
    ELSE IF variant = "legacy"
    THEN Legacy_incremental_index_repository(
             db, head, tip, tree, gitOut, changed, r.url, "c1", tip, NoFault)
    ELSE incremental_index_repository(
             db, head, tip, tree, gitOut, changed, r.url, "c1", tip, NoFault)

\* the run has returned: its effects, and the task is over
EndRun(run, q) ==
    /\ db' = run.db
    /\ head' = run.head
    /\ last' = run.last
    /\ gitOut' = run.gitOut
    /\ changed' = run.changed
    /\ inflight' = [inflight EXCEPT ![q] = Idle]
    /\ UNCHANGED <<variant, tree, tip, budget, tasks>>
    /\ UNCHANGED <<parseVars, retrieved, named, gather, review>>

\* process_push_event (the incremental run is a plain call) and a full
\* index without per-file tasks: they run to their end holding the loop
RunToEnd ==
    \E q \in 1..Len(inflight) :
        /\ inflight[q].mode = "running"
        /\ ~(inflight[q].op = "index" /\ AwaitsGather(variant, tip, tree, inflight[q].url))
        /\ EndRun(HookRun(inflight[q]), q)

\* the gather has finished: the rows of all files go to the table in one add
ResumeIndex ==
    \E q \in 1..Len(inflight) :
        /\ LoopFree
        /\ inflight[q].mode = "awaiting"
        /\ LET r == inflight[q]
               table_name == repo_url_to_table_name(r.url)
               rows == GatherRows(r.url, tree[head], r.files, NoFault)
               bag  == IF rows = <<>> THEN Rows(db, table_name)
                       ELSE TableAdd(Rows(db, table_name), rows)
           IN  /\ db' = (table_name :> bag) @@ db
               /\ last' = [NoRun EXCEPT !.op = "index", !.v = variant, !.url = r.url,
                                        !.pre = db, !.step = "done",
                                        !.status = "success",
                                        !.chunks_added = Len(rows),
                                        !.total_chunks = BagCardinality(bag)]
               /\ inflight' = [inflight EXCEPT ![q] = Idle]
        /\ UNCHANGED <<variant, tree, tip, head, budget, gitOut, changed, tasks>>
        /\ UNCHANGED <<parseVars, retrieved, named, gather, review>>

NextHooks == Deliver \/ StartTask \/ RunToGather \/ RunToEnd \/ ResumeIndex

SpecHooks == InitHooks /\ [][NextHooks]_vars

-----------------------------------------------------------------------------
(* Table names alone, on pairs of repository URLs *)

U_CASE == <<"h", "/", "O", "/", "r">>
U_UNDER_OWNER == <<"h", "/", "a", "_", "b", "/", "c">>
U_UNDER_REPO == <<"h", "/", "a", "/", "b", "_", "c">>
U_GITHUB == <<"h", "/", "o", "/", "r", ".", "g", "i", "t", "h", "u", "b">>
U_RHUB == <<"h", "/", "o", "/", "r", "h", "u", "b">>

NameUrls ==
    {U_GIT, U_WEB, U_OTHER, U_CASE, U_UNDER_OWNER, U_UNDER_REPO, U_GITHUB, U_RHUB}

InitNames ==
    /\ variant = "indexing"
    /\ tree \in {t \in Trees : \A c \in Commits : DOMAIN t[c] \cap PyPaths = {}}
    /\ tip = "c1"
    /\ head = "none"
    /\ db = EmptyDb
    /\ last = NoRun
    /\ budget = 0
    /\ gitOut = NoGit
    /\ changed = NoChanges
    /\ diffDoc = <<>>
    /\ diffText = <<>>
    /\ fileDiffs = NotParsed
    /\ tasks = <<>>
    /\ inflight = <<>>
    /\ retrieved = NotRetrieved
    /\ named \in [urls : NameUrls \X NameUrls, names : {NotNamed}]
    /\ gather = NoGather
    /\ review = NoReview

\* the tables of two repository URLs are named
NameTables ==
    /\ named.names = NotNamed
    /\ named' = [named EXCEPT !.names = <<repo_url_to_table_name(named.urls[1]),
                                           repo_url_to_table_name(named.urls[2])>>]
    /\ UNCHANGED <<variant, tree, tip, head, db, last, budget, gitOut, changed>>
    /\ UNCHANGED <<parseVars, hookVars, retrieved, gather, review>>

NextNames == NameTables

SpecNames == InitNames /\ [][NextNames]_vars

-----------------------------------------------------------------------------
(* The per-file tasks of index_repository, from `tasks = [...]` to the insert *)

\* worker threads of the executor asyncio.to_thread submits to
MaxWorkers == 2

\* working copies of up to three Python files
GatherCopies ==
    {[p \in S |-> IF p = A_PY THEN c ELSE K1] :
        S \in SUBSET {A_PY, B_PY, SUB_PY}, c \in {K1, K3}}

\* what can go wrong for a task, and for the insert
GatherFaults ==
    {NoFault} \cup {f \in FileFaults : f.site \in {"io", "parse", "add"}}
              \cup EmbedFaults

InitGather ==
    /\ variant = "legacy"
    /\ tree \in {t \in Trees : \A c \in Commits : DOMAIN t[c] \cap PyPaths = {}}
    /\ tip = "c1"
    /\ head = "none"
    /\ db = EmptyDb
    /\ last = NoRun
    /\ budget = 0
    /\ gitOut = NoGit
    /\ changed = NoChanges
    /\ diffDoc = <<>>
    /\ diffText = <<>>
    /\ fileDiffs = NotParsed
    /\ tasks = <<>>
    /\ inflight = <<>>
    /\ retrieved = NotRetrieved
    /\ named = Unnamed
    /\ review = NoReview
    /\ \E wc \in GatherCopies, f \in GatherFaults :
           LET files == WalkPython(LocalRepoPath(U_GIT), wc, 1)
           IN  gather = [NoGather EXCEPT
                   !.phase = "gathering", !.repo_url = U_GIT, !.wc = wc, !.fault = f,
                   !.files = files,
                   !.pc = [k \in 1..Len(files) |-> "new"],
                   !.at = [k \in 1..Len(files) |-> 0],
                   !.thread = [k \in 1..Len(files) |-> "none"],
                   !.all_chunks_from_tasks = [k \in 1..Len(files) |-> <<>>]]

GatherFrame ==
    /\ UNCHANGED <<variant, tree, tip, head, db, last, budget, gitOut, changed>>
    /\ UNCHANGED <<parseVars, hookVars, retrieved, named, review>>

\* code_chunks_data of task k
TaskChunks(g, k) == parse_and_extract_chunks(g.files[k], g.wc[g.files[k]])

\* task k returns file_chunks
TaskReturns(g, k) ==
    [g EXCEPT !.pc[k] = "done", !.thread[k] = "none",
              !.all_chunks_from_tasks[k] =
                  ProcessSingleFile(g.repo_url, g.wc, g.files[k], g.fault)]

\* task k awaits asyncio.to_thread(...) for its step pc
TaskAwaits(g, k, pc, i) ==
    [g EXCEPT !.pc[k] = pc, !.at[k] = i, !.thread[k] = "queued"]

\* the loop runs a task for the first time, up to its first await: the file
\* is opened and f.read is handed to a thread
TaskStart ==
    \E k \in 1..Len(gather.files) :
        /\ gather.phase = "gathering"
        /\ gather.pc[k] = "new"
        /\ \A j \in 1..(k - 1) : gather.pc[j] # "new"
        /\ gather' = IF Fails(gather.fault, "io", gather.files[k])
                     THEN TaskReturns(gather, k)
                     ELSE TaskAwaits(gather, k, "read", 0)
        /\ GatherFrame

\* a free worker thread takes the call a task waits for
ThreadTake ==
    \E k \in 1..Len(gather.files) :
        /\ gather.thread[k] = "queued"
        /\ Cardinality({j \in 1..Len(gather.files) : gather.thread[j] = "running"})
               < MaxWorkers
        /\ gather' = [gather EXCEPT !.thread[k] = "running"]
        /\ GatherFrame

\* the call ends and its task runs up to the next await or to its return
ThreadDone ==
    \E k \in 1..Len(gather.files) :
        /\ gather.thread[k] = "running"
        /\ gather' =
               CASE gather.pc[k] = "read" -> TaskAwaits(gather, k, "parse", 0)
                 [] gather.pc[k] = "parse" ->
                      IF \/ Fails(gather.fault, "parse", gather.files[k])
                         \/ TaskChunks(gather, k) = <<>>
                      THEN TaskReturns(gather, k)
                      ELSE TaskAwaits(gather, k, "embed", 1)
                 [] gather.pc[k] = "embed" ->
                      IF gather.at[k] < Len(TaskChunks(gather, k))
                      THEN TaskAwaits(gather, k, "embed", gather.at[k] + 1)
                      ELSE TaskReturns(gather, k)
        /\ GatherFrame

\* a join that ends with the first task
Joined_FirstCompleted(g) == \E k \in 1..Len(g.files) : g.pc[k] = "done"

\* await asyncio.gather(*tasks) returns: every task has returned
Joined(g) == \A k \in 1..Len(g.files) : g.pc[k] = "done"

\* all_chunks_to_add.extend(file_chunk_list) for each list, in task order
RECURSIVE Extend(_, _)
Extend(lists, k) ==
    IF k > Len(lists) THEN <<>> ELSE lists[k] \o Extend(lists, k + 1)

\* index_repository resumes after the gather: one insert of all the rows
GatherJoin ==
    /\ gather.phase = "gathering"
    /\ Joined(gather)
    /\ LET all_chunks_to_add == Extend(gather.all_chunks_from_tasks, 1)
           ok == gather.fault.site # "add"
       IN  gather' = [gather EXCEPT
               !.phase = "done",
               !.calls = IF all_chunks_to_add = <<>> THEN <<>>
                         ELSE <<Call("add", <<>>, <<>>, all_chunks_to_add, ok)>>,
               !.table = IF all_chunks_to_add # <<>> /\ ok
                         THEN TableAdd(@, all_chunks_to_add) ELSE @]
    /\ GatherFrame

NextGather == TaskStart \/ ThreadTake \/ ThreadDone \/ GatherJoin

SpecGather == InitGather /\ [][NextGather]_vars

-----------------------------------------------------------------------------
(* The pull-request handler, from the parsed diff to the inline comments *)

\* diffs of one, two and three FileDiff entries
ReviewDocs ==
    {ScenarioDoc,
     <<Block("file", X_F, <<Hunk(1, 1, "git", <<CTX, ADD>>)>>), Y_BLOCK>>,
     <<Block("file", X_F, <<Hunk(1, 1, "git", <<ADD, ADD_DELIM_PLUS>>)>>), Y_BLOCK>>}

\* a comment of the model's answer: comment.get("line_number") is None (<<>>)
\* or a number, comment.get("comment") may be empty
ReviewComments ==
    {[line_number |-> ln, comment |-> t] :
        ln \in {<<>>, <<0>>, <<2>>, <<3>>}, t \in {<<>>, <<"c">>}}

\* what a review task hands to the gather: an exception, or its comments
ReviewResults ==
    {[failed |-> TRUE, inline_comments |-> <<>>]}
        \cup {[failed |-> FALSE, inline_comments |-> cs] :
                 cs \in {<<>>} \cup {<<c>> : c \in ReviewComments}
                             \cup {<<c, d>> : c, d \in {x \in ReviewComments :
                                        x.line_number = <<2>>}}}

InitReview ==
    /\ variant \in Variants
    /\ tree \in {t \in Trees : \A c \in Commits : DOMAIN t[c] \cap PyPaths = {}}
    /\ tip = "c1"
    /\ head = "none"
    /\ db = EmptyDb
    /\ last = NoRun
    /\ budget = 0
    /\ gitOut = NoGit
    /\ changed = NoChanges
    /\ diffDoc = <<>>
    /\ diffText = <<>>
    /\ fileDiffs = NotParsed
    /\ tasks = <<>>
    /\ inflight = <<>>
    /\ retrieved = NotRetrieved
    /\ named = Unnamed
    /\ gather = NoGather
    /\ \E doc \in ReviewDocs :
           LET file_diffs == parse_diff(UnifiedDiff(doc)).diffs
           IN  review = [NoReview EXCEPT
                   !.phase = "reviewing",
                   !.file_diffs = file_diffs,
                   !.result = [k \in 1..Len(file_diffs) |-> NoResult]]

ReviewFrame ==
    /\ UNCHANGED <<variant, tree, tip, head, db, last, budget, gitOut, changed>>
    /\ UNCHANGED <<parseVars, hookVars, retrieved, named, gather>>

\* the task of file k ends, in whatever order; `about` records whose it was
ReviewTaskDone ==
    \E k \in 1..Len(review.file_diffs), res \in ReviewResults :
        /\ review.phase = "reviewing"
        /\ review.result[k] = NoResult
        /\ review' = [review EXCEPT
               !.result[k] = res @@ [about |-> k],
               !.finished = Append(@, k)]
        /\ ReviewFrame

\* results in the order in which the tasks ended
GatherResults_AsCompleted(r) ==
    [i \in 1..Len(r.file_diffs) |-> r.result[r.finished[i]]]

\* results_from_tasks of asyncio.gather: in the order of review_tasks
GatherResults(r) == [i \in 1..Len(r.file_diffs) |-> r.result[i]]

\* the body of `for comment in ...`: the comment is kept when its line has a
\* position and it has a text
InlineComment(file_diff, i, result, comment) ==
    LET line_number == comment.line_number
        mapped == /\ line_number # <<>>
                  /\ line_number[1] \in DOMAIN file_diff.line_mapping
        position == IF mapped THEN file_diff.line_mapping[line_number[1]] ELSE 0
    IN  IF position # 0 /\ comment.comment # <<>>
        THEN <<[path |-> file_diff.path, body |-> comment.comment,
                position |-> position,
                slot |-> i, about |-> result.about, line |-> line_number]>>
        ELSE <<>>

RECURSIVE InlineComments(_, _, _, _)
InlineComments(file_diff, i, result, j) ==
    IF j > Len(result.inline_comments) THEN <<>>
    ELSE InlineComment(file_diff, i, result, result.inline_comments[j])
         \o InlineComments(file_diff, i, result, j + 1)

\* the loop over enumerate(results_from_tasks)
RECURSIVE AllInlineComments(_, _, _)
AllInlineComments(file_diffs, results_from_tasks, i) ==
    IF i > Len(results_from_tasks) THEN <<>>
    ELSE (IF results_from_tasks[i].failed THEN <<>>
          ELSE InlineComments(file_diffs[i], i, results_from_tasks[i], 1))
         \o AllInlineComments(file_diffs, results_from_tasks, i + 1)

\* the gather returns and the handler collects the comments of the review
CollectReview ==
    /\ review.phase = "reviewing"
    /\ \A k \in 1..Len(review.file_diffs) : review.result[k] # NoResult
    /\ review' = [review EXCEPT
           !.phase = "collected",
           !.all_inline_comments =
               AllInlineComments(review.file_diffs, GatherResults(review), 1)]
    /\ ReviewFrame

NextReview == ReviewTaskDone \/ CollectReview

SpecReview == InitReview /\ [][NextReview]_vars

-----------------------------------------------------------------------------
(* Unified Diff Parser: the claims *)

Parsed == fileDiffs # NotParsed

\* every place where pat starts in s
Occurrences(s, pat) ==
    {i \in 1..Len(s) : i + Len(pat) - 1 <= Len(s) /\ SubSeq(s, i, i + Len(pat) - 1) = pat}

\* C11: parse_diff never raises, whatever the text, and returns at most as
\* many FileDiff entries as the text has occurrences of "diff --git ".
C11_NeverRaisesAndBounded ==
    Parsed =>
        /\ fileDiffs.raised = "none"
        /\ Len(fileDiffs.diffs) <= Cardinality(Occurrences(diffText, DELIM))

\* a text with a non-numeric hunk header was parsed, and a segment was dropped
C11_Witness ==
    /\ Parsed
    /\ \E i \in 1..Len(diffDoc), j \in 1..2 :
           j <= Len(diffDoc[i].hunks) /\ diffDoc[i].hunks[j].style = "nonnumeric"
    /\ Len(fileDiffs.diffs) < Cardinality(Occurrences(diffText, DELIM))

\* C12: for a valid unified diff, every value p of a line_mapping is a
\* 1-based index into content split by newline, and line p of content
\* starts with "+" and is not a "+++" line.
C12_PositionsIndexAddedLines ==
    (Parsed /\ ValidDiff(diffDoc)) =>
        \A d \in 1..Len(fileDiffs.diffs) :
            LET fd    == fileDiffs.diffs[d]
                lines == split(fd.content, NL)
            IN  \A k \in DOMAIN fd.line_mapping :
                    LET p == fd.line_mapping[k]
                    IN  /\ p \in 1..Len(lines)
                        /\ startswith(lines[p], <<"+">>)
                        /\ ~startswith(lines[p], <<"+", "+", "+">>)

\* the new-file line number of line i of a hunk body
NewLineOf(h, i) == h.new_start + CountTags(SubSeq(h.body, 1, i - 1), {" ", "+"})

\* the new-file line numbers of the added lines of one file of a diff
AddedLineNumbers(b) ==
    UNION {{NewLineOf(b.hunks[j], i) :
               i \in {n \in 1..Len(b.hunks[j].body) : b.hunks[j].body[n].tag = "+"}} :
           j \in 1..Len(b.hunks)}

\* C13: for a valid unified diff, the line_mapping of a file has exactly one
\* entry per added line of the file, keyed by the line's number in the new
\* file (set by each hunk header, advanced by added and context lines only).
C13_OneEntryPerAddedLine ==
    (Parsed /\ ValidDiff(diffDoc)) =>
        \A b \in 1..Len(diffDoc) :
            \E d \in 1..Len(fileDiffs.diffs) :
                /\ fileDiffs.diffs[d].path = diffDoc[b].path
                /\ DOMAIN fileDiffs.diffs[d].line_mapping = AddedLineNumbers(diffDoc[b])

ScenarioParsed == Parsed /\ diffText = ScenarioText

\* C14 (as stated): the one-file scenario diff gives exactly one FileDiff
\* with path "x.py" and line_mapping {2: 5}.
C14_ScenarioPosition5 ==
    ScenarioParsed =>
        /\ Len(fileDiffs.diffs) = 1
        /\ fileDiffs.diffs[1].path = X_PY
        /\ fileDiffs.diffs[1].line_mapping = (2 :> 5)

\* C14 (amended): the one-file scenario diff gives exactly one FileDiff with
\* path "x.py" and line_mapping {2: 6}: the added line is line 6 of the block.
C14_ScenarioPosition6 ==
    ScenarioParsed =>
        /\ Len(fileDiffs.diffs) = 1
        /\ fileDiffs.diffs[1].path = X_PY
        /\ fileDiffs.diffs[1].line_mapping = (2 :> 6)

C14_Witness ==
    /\ ScenarioParsed
    /\ diffDoc = ScenarioDoc
    /\ fileDiffs.raised = "none"

\* the files of a diff whose block parse_diff can read, in order
RECURSIVE WellFormedPaths(_)
WellFormedPaths(doc) ==
    IF doc = <<>> THEN <<>>
    ELSE (IF WellFormed(Head(doc)) THEN <<Head(doc).path>> ELSE <<>>)
             \o WellFormedPaths(Tail(doc))

\* each file of the diff is one segment of the text
OneSegmentPerFile ==
    Cardinality(Occurrences(diffText, DELIM)) = Len(diffDoc)

\* C15: parse_diff returns one FileDiff for every well-formed segment, in the
\* order of the diff, whatever malformed segments lie before, between or
\* after them; the empty text gives the empty list.
C15_MalformedSegmentsDropOnlyThemselves ==
    (Parsed /\ OneSegmentPerFile) =>
        /\ Len(fileDiffs.diffs) = Len(WellFormedPaths(diffDoc))
        /\ \A d \in 1..Len(fileDiffs.diffs) :
               /\ fileDiffs.diffs[d].path = WellFormedPaths(diffDoc)[d]
               /\ startswith(fileDiffs.diffs[d].content,
                             DELIM \o <<"a", "/">> \o fileDiffs.diffs[d].path)
        /\ (diffText = <<>> => fileDiffs.diffs = <<>>)

\* a malformed segment lay between two well-formed ones, and both were returned
C15_Witness ==
    /\ Parsed
    /\ OneSegmentPerFile
    /\ Len(diffDoc) = 3
    /\ WellFormed(diffDoc[1]) /\ ~WellFormed(diffDoc[2]) /\ WellFormed(diffDoc[3])
    /\ Len(fileDiffs.diffs) = 2

-----------------------------------------------------------------------------
(* ChangeSetDetector: the claims *)

Detected == changed.raised # "pending"

\* the paths of the entries whose status begins with ch and whose first path
\* has the tracked extension, in the order of the listing
RECURSIVE PathsWithStatus(_, _)
PathsWithStatus(entries, ch) ==
    IF entries = <<>> THEN <<>>
    ELSE (IF /\ Head(entries).status # <<>>
             /\ Head(entries).status[1] = ch
             /\ Head(entries).paths # <<>>
             /\ endswith(Head(entries).paths[1], S_PY)
          THEN <<Head(entries).paths[1]>> ELSE <<>>)
         \o PathsWithStatus(Tail(entries), ch)

\* C10: when the diff command succeeds, added, modified and deleted are the
\* .py paths of the lines whose status begins with A, M and D, each in the
\* order of the output; lines with another status (R, C, T), lines without a
\* path and paths without the .py extension appear in no list.
C10_Classification ==
    (Detected /\ gitOut.ok) =>
        /\ changed.raised = "none"
        /\ changed.added = PathsWithStatus(gitOut.entries, "A")
        /\ changed.modified = PathsWithStatus(gitOut.entries, "M")
        /\ changed.deleted = PathsWithStatus(gitOut.entries, "D")

\* a rename line followed by a modification of its target: only the second
\* line is classified
C10_Witness ==
    /\ Detected /\ gitOut.ok
    /\ gitOut.entries = <<Entry(<<"R", "9">>, <<A_PY, B_PY>>), Entry(<<"M">>, <<B_PY>>)>>
    /\ changed.modified = <<B_PY>>
    /\ changed.added = <<>> /\ changed.deleted = <<>>

\* C9 as claimed: when the diff command fails, get_changed_files returns
\* three empty lists to its caller.
C9_ReturnsEmptyLists ==
    (Detected /\ ~gitOut.ok) =>
        /\ changed.raised = "none"
        /\ changed.added = <<>> /\ changed.modified = <<>> /\ changed.deleted = <<>>

\* C9 amended: when the diff command fails the caller never receives a
\* partial change set: app/incremental_indexer.py returns three empty lists,
\* app/indexing/incremental_indexer.py raises RepositoryIndexingError.
C9_NoPartialChangeSet ==
    (Detected /\ ~gitOut.ok) =>
        /\ changed.added = <<>> /\ changed.modified = <<>> /\ changed.deleted = <<>>
        /\ changed.raised = IF variant = "legacy" THEN "none"
                            ELSE "RepositoryIndexingError"

\* the command fails after it printed two lines that would classify
C9_Witness ==
    /\ Detected /\ ~gitOut.ok
    /\ variant = "legacy"
    /\ gitOut.entries = <<Entry(<<"D">>, <<A_PY>>), Entry(<<"A">>, <<B_PY>>)>>
    /\ changed.raised = "none" /\ changed.added = <<>> /\ changed.deleted = <<>>

-----------------------------------------------------------------------------
(* ChunkSync and the runs: the claims *)

TableOf(repo_url) == repo_url_to_table_name(repo_url)

\* the rows of the repository's table before and after the last run
RowsBefore == Rows(last.pre, TableOf(last.url))
RowsAfter == Rows(db, TableOf(last.url))

Synced == last.op = "incremental"
Succeeded == last.status = "success" /\ last.outcome = "none"

\* the rows a full index of the snapshot produces
FullIndexRows(repo_url, snap) ==
    SeqToBag(GatherRows(repo_url, snap, WalkPython(LocalRepoPath(repo_url), snap, 1), NoFault))

\* C1: a successful sync from old_commit to new_commit, the working copy at
\* new_commit, started on a table holding exactly the chunks of the .py files
\* at old_commit, leaves exactly the rows of a full index at new_commit.
C1_SyncEqualsReindex ==
    (/\ Synced /\ Succeeded
     /\ gitOut.ok
     /\ last.new = head
     /\ RowsBefore = FullIndexRows(last.url, tree[last.old]))
    => RowsAfter = FullIndexRows(last.url, tree[last.new])

\* no two rows of the table carry the same id
NoDuplicateIds(bag) ==
    \A r \in DOMAIN bag :
        /\ bag[r] = 1
        /\ \A q \in DOMAIN bag : q.id = r.id => q = r

\* this step is a second sync with the arguments of the last one, on the same
\* working copy and by the same code
SameSyncAgain ==
    /\ last'.op = "incremental" /\ last'.pre = db
    /\ last'.v = last.v /\ last'.url = last.url
    /\ last'.old = last.old /\ last'.new = last.new
    /\ last'.fault = NoFault /\ last'.status = "success" /\ last'.outcome = "none"
    /\ head' = head

\* C2: a sync on a fresh table followed by the same sync again leaves the
\* chunk count of the first sync and no two rows with one id.
C2_ResyncIdempotent ==
    [][(/\ Synced /\ Succeeded /\ gitOut.ok
        /\ last.fault = NoFault
        /\ RowsBefore = EmptyBag
        /\ SameSyncAgain)
       => /\ BagCardinality(RowsAfter') = BagCardinality(RowsAfter)
          /\ NoDuplicateIds(RowsAfter')]_vars

\* C3: in every table of the store, no two rows have the same chunk id.
C3_UniqueIds == \A n \in DOMAIN db : NoDuplicateIds(db[n])

\* the calls of the last run to operation op
CallsTo(op) == SelectSeq(last.calls, LAMBDA c : c.op = op)

\* the paths a delete or count call names in its filter
FilterPaths(call) == {call.conds[i].file_path : i \in 1..Len(call.conds)}

\* the SQL literals that denote the paths of S
Literals(S) == {SqlEscape(q) : q \in S}

AddedSet == SeqToSet(last.changes.added)
ModifiedSet == SeqToSet(last.changes.modified)
DeletedSet == SeqToSet(last.changes.deleted)

\* C4: every delete filter of a sync names exactly the paths of deleted and
\* modified, and one is issued when there is such a path and the store answers;
\* chunk extraction is invoked only for paths of added and modified.
C4_DeleteAndExtractTargets ==
    Synced =>
        /\ \A i \in 1..Len(CallsTo("delete")) :
               FilterPaths(CallsTo("delete")[i]) = Literals(DeletedSet \cup ModifiedSet)
        /\ (last.fault = NoFault /\ last.step = "done") =>
               Len(CallsTo("delete")) = IF DeletedSet \cup ModifiedSet = {} THEN 0 ELSE 1
        /\ \A i \in 1..Len(CallsTo("extract")) :
               CallsTo("extract")[i].path \in AddedSet \cup ModifiedSet

\* the scenario of the spec: a.py added, b.py deleted
C4_Witness ==
    /\ Synced /\ last.v = "indexing" /\ last.step = "done"
    /\ last.changes.added = <<A_PY>> /\ last.changes.deleted = <<B_PY>>
    /\ last.changes.modified = <<>>
    /\ Len(CallsTo("delete")) = 1
    /\ FilterPaths(CallsTo("delete")[1]) = {B_PY}
    /\ Len(CallsTo("extract")) = 1
    /\ CallsTo("extract")[1].path = A_PY

\* the rows of the bag that a sync on the last run's change set may touch
Touched(row) ==
    /\ row.repo_url = last.url
    /\ row.file_path \in AddedSet \cup ModifiedSet \cup DeletedSet

WorkingCopy == tree[head]

\* the last run went through its insertion phase with files to add
InsertRan ==
    /\ Synced /\ last.step \in {"insert", "done"}
    /\ FilesToAdd(last.changes) # <<>>

FilesToAddSet == SeqToSet(FilesToAdd(last.changes))

\* the chunks of file p that were extracted and embedded and whose file was
\* parsed and inserted, given the faults of the last run
GoodChunks(p) ==
    IF \/ ~Exists(WorkingCopy, p)
       \/ \E site \in {"unicode", "io", "parse", "add"} : Fails(last.fault, site, p)
    THEN {}
    ELSE {i \in 1..Len(parse_and_extract_chunks(p, WorkingCopy[p])) :
              ~EmbedFails(last.fault, p, i)}

RECURSIVE SumGood(_)
SumGood(S) ==
    IF S = {} THEN 0
    ELSE LET p == CHOOSE x \in S : TRUE IN Cardinality(GoodChunks(p)) + SumGood(S \ {p})

\* C6: in app/indexing, when a file fails to parse or insert or a chunk fails
\* to embed, and other chunks were extracted and embedded, the phase returns
\* their number without raising and the table holds them.
C6_PartialInsert ==
    (/\ InsertRan /\ last.v = "indexing"
     /\ last.fault.site \in {"parse", "add", "embed"}
     /\ SumGood(FilesToAddSet) > 0)
    => /\ last.procRaised = "none"
       /\ last.chunks_added = SumGood(FilesToAddSet)
       /\ BagCardinality(RowsAfter) =
              BagCardinality(RowsBefore) - last.chunks_deleted + SumGood(FilesToAddSet)

\* the chunks the run saw for file p
ChunksSeen(p) ==
    IF last.v = "indexing" THEN LiveExtract(p, WorkingCopy[p])
    ELSE parse_and_extract_chunks(p, WorkingCopy[p])

\* file p failed to be read, parsed or inserted in the last run
RecordedFailure(p) ==
    /\ Exists(WorkingCopy, p)
    /\ \/ Fails(last.fault, "io", p)
       \/ \E i \in 1..Len(last.calls) :
              /\ ~last.calls[i].ok
              /\ \/ last.calls[i].op = "extract" /\ last.calls[i].path = p
                 \/ /\ last.calls[i].op = "add"
                    /\ \E j \in 1..Len(last.calls[i].rows) :
                           last.calls[i].rows[j].file_path = p

\* every chunk of file p was given to the embedder, which failed
EmbedFailure(p) ==
    /\ Exists(WorkingCopy, p) /\ ~Fails(last.fault, "io", p)
    /\ ~Fails(last.fault, "parse", p)
    /\ ChunksSeen(p) # <<>>
    /\ \A i \in 1..Len(ChunksSeen(p)) : EmbedFails(last.fault, p, i)

C8_MissingFileSkipped ==
    (InsertRan /\ last.fault = NoFault) =>
        /\ last.procRaised = "none"
        /\ \A p \in FilesToAddSet :
               IF Exists(WorkingCopy, p)
               THEN \E i \in 1..Len(CallsTo("extract")) : CallsTo("extract")[i].path = p
               ELSE /\ \A i \in 1..Len(CallsTo("extract")) : CallsTo("extract")[i].path # p
                    /\ \A i \in 1..Len(CallsTo("add")) :
                           \A j \in 1..Len(CallsTo("add")[i].rows) :
                               CallsTo("add")[i].rows[j].file_path # p
        /\ (\A p \in FilesToAddSet : ~Exists(WorkingCopy, p)) =>
               /\ CallsTo("add") = <<>>
               /\ last.chunks_added = 0
               /\ Succeeded

\* b.py is in added and missing from the working copy, a.py is modified and
\* there: a.py alone is given to the extractor
C8_Witness ==
    /\ InsertRan /\ last.v = "indexing" /\ last.fault = NoFault
    /\ last.changes.added = <<B_PY>> /\ last.changes.modified = <<A_PY>>
    /\ ~Exists(WorkingCopy, B_PY) /\ Exists(WorkingCopy, A_PY)
    /\ Len(CallsTo("extract")) = 1 /\ CallsTo("extract")[1].path = A_PY
    /\ Succeeded

-----------------------------------------------------------------------------
(* FullIndexer: the claims *)

Indexed == last.op = "index" /\ Succeeded

\* the file lies in a directory named .git, at any depth
InsideGitDirectory(p) ==
    LET parts == split(p, "/")
    IN  \E k \in 1..(Len(parts) - 1) : parts[k] = DOT_GIT

\* the files of the working copy the full indexer has to process
TrackedPython(wc) ==
    {p \in DOMAIN wc : endswith(p, S_PY) /\ ~InsideGitDirectory(p)}

ExtractedFiles == {CallsTo("extract")[i].path : i \in 1..Len(CallsTo("extract"))}

\* C16: a completed index_repository run processes exactly the files of
\* the working copy that end in .py and are not inside a .git directory,
\* and each of them (all define something here) has rows in the table.
C16_WalksTrackedPython ==
    Indexed =>
        /\ ExtractedFiles = TrackedPython(tree[tip])
        /\ {r.file_path : r \in BagToSet(RowsAfter)} = TrackedPython(tree[tip])

-----------------------------------------------------------------------------
(* Retriever: the claims *)

HasRetrieved == retrieved # NotRetrieved

\* the store answered the two calls that look the table up
LookupAnswered == retrieved.fault \notin {"conn", "names"}

\* C19: a retrieval for a repository without a table returns the empty
\* result, without raising and without calling the embedder or the search;
\* and no failure of the store or the embedder leaves a retrieval as an
\* exception.
C19_NoTableNoFailure ==
    HasRetrieved =>
        /\ retrieved.result.raised = "none"
        /\ (repo_url_to_table_name(retrieved.args[1]) \notin DOMAIN db /\ LookupAnswered)
               => /\ retrieved.result.text = <<>>
                  /\ \A i \in 1..Len(retrieved.result.calls) :
                         retrieved.result.calls[i] \notin
                             {"initialize_embedding_model", "get_embedding", "search"}

\* a retrieval for a repository without a table, in a store that holds the
\* table of another repository
C19_Witness ==
    /\ HasRetrieved
    /\ retrieved.args[1] = U_OTHER
    /\ retrieved.fault = "none"
    /\ DOMAIN db # {}
    /\ retrieved.result.text = <<>>

-----------------------------------------------------------------------------
(* Webhook handlers: the claims *)

InFlight(q) == inflight[q].mode # "idle"

-----------------------------------------------------------------------------
(* Table names: the claims *)

UpperCase == <<"A", "B", "C", "D", "E", "F", "G", "H", "I", "J", "K", "L", "M",
               "N", "O", "P", "Q", "R", "S", "T", "U", "V", "W", "X", "Y", "Z">>
LowerCase == <<"a", "b", "c", "d", "e", "f", "g", "h", "i", "j", "k", "l", "m",
               "n", "o", "p", "q", "r", "s", "t", "u", "v", "w", "x", "y", "z">>

LowerChar(c) ==
    IF \E i \in 1..Len(UpperCase) : UpperCase[i] = c
    THEN LowerCase[CHOOSE i \in 1..Len(UpperCase) : UpperCase[i] = c]
    ELSE c

lower(s) == [i \in 1..Len(s) |-> LowerChar(s[i])]

\* the owner and the repository a URL names: its last two segments, lower
\* case, without the .git suffix
OwnerRepo(url) ==
    LET parts == LastTwo(split(url, "/"))
        repo  == parts[Len(parts)]
        bare  == IF endswith(repo, DOT_GIT) THEN SubSeq(repo, 1, Len(repo) - Len(DOT_GIT))
                 ELSE repo
    IN  <<lower(parts[1]), lower(bare)>>

\* C20: the table name of a URL is its lower-cased owner/repo with the .git
\* suffix stripped and the slash replaced; two URLs get the same name if and
\* only if they name the same owner/repo, letter case and .git suffix aside.
C20_OneTablePerRepository ==
    named.names # NotNamed =>
        /\ \A i \in 1..2 :
               named.names[i] = OwnerRepo(named.urls[i])[1] \o <<"_">>
                                    \o OwnerRepo(named.urls[i])[2]
        /\ (named.names[1] = named.names[2])
               <=> (OwnerRepo(named.urls[1]) = OwnerRepo(named.urls[2]))

\* C17: an index_repository run that meets no failure ends with the table
\* of the repository holding exactly the chunks of the current working
\* copy, whatever the table held before.
C17_RebuildsTable ==
    [][(last' # last /\ last'.op = "index" /\ last'.fault = NoFault) =>
           Rows(db', TableOf(last'.url)) = FullIndexRows(last'.url, tree[tip])]_vars

-----------------------------------------------------------------------------
(* The runs: what reaches the caller *)

\* the exceptions incremental_index_repository declares
DeclaredErrors == {"RepositoryCloneError", "RepositoryIndexingError", "VectorDBError"}

\* C21: a sync of app/indexing returns or raises RepositoryCloneError,
\* RepositoryIndexingError or VectorDBError; no other exception reaches the
\* caller, also when the run fails before a chunk total is recorded.
C21_OnlyDeclaredErrors ==
    (Synced /\ last.v = "indexing") => last.outcome \in {"none"} \cup DeclaredErrors

-----------------------------------------------------------------------------
(* ChunkSync: the order of the calls *)

\* the positions of the last run's calls to operation op
CallIndexes(op) == {i \in 1..Len(last.calls) : last.calls[i].op = op}

\* the rows of path p that the inserts of the last run put in the table
InsertedRowsOf(p) ==
    UNION {{<<i, j>> : j \in {k \in 1..Len(last.calls[i].rows) :
                                last.calls[i].rows[k].file_path = p}} :
              i \in {c \in CallIndexes("add") : last.calls[c].ok}}

\* the rows of path p in the repository's table after the last run
RowsOfPath(p) ==
    [r \in {x \in DOMAIN RowsAfter : x.repo_url = last.url /\ x.file_path = p}
        |-> RowsAfter[r]]

\* C22: in a sync with paths to delete, every insert comes after a delete that
\* was issued and returned; after the run the table holds, for a modified file
\* that was inserted, the inserted rows only.
C22_DeleteBeforeInsert ==
    Synced =>
        /\ DeletedSet \cup ModifiedSet # {} =>
               \A j \in CallIndexes("add") :
                   \E i \in CallIndexes("delete") : i < j /\ last.calls[i].ok
        /\ \A p \in ModifiedSet :
               InsertedRowsOf(p) # {} =>
                   BagCardinality(RowsOfPath(p)) = Cardinality(InsertedRowsOf(p))

-----------------------------------------------------------------------------
(* The per-file tasks: the claims *)

\* the tasks that have started and not returned
InFlightTasks ==
    {k \in 1..Len(gather.files) : gather.pc[k] \notin {"new", "done"}}

\* C24: during index_repository no more per-file tasks are in flight at a
\* time than the pool of workers has threads, however many files are walked.
C24_BoundedTasks == Cardinality(InFlightTasks) <= MaxWorkers

\* the chunks of file p that its task turns into rows
TaskGood(p) ==
    IF Fails(gather.fault, "io", p) \/ Fails(gather.fault, "parse", p) THEN {}
    ELSE {i \in 1..Len(parse_and_extract_chunks(p, gather.wc[p])) :
              ~EmbedFails(gather.fault, p, i)}

\* the rows of file p in the insert
BatchRowsOf(p) ==
    {j \in 1..Len(gather.calls[1].rows) : gather.calls[1].rows[j].file_path = p}

FilesOfGather == SeqToSet(gather.files)

\* C25: index_repository issues its insert after every per-file task has
\* returned, and at most one; when the tasks are over there is an insert
\* exactly when some task produced rows, and it carries the rows of every
\* task, whichever other task failed.
C25_JoinBeforeInsert ==
    /\ Len(gather.calls) <= 1
    /\ gather.calls # <<>> => \A k \in 1..Len(gather.files) : gather.pc[k] = "done"
    /\ gather.phase = "done" =>
           /\ \A k \in 1..Len(gather.files) : gather.pc[k] = "done"
           /\ (gather.calls # <<>>) <=> (\E p \in FilesOfGather : TaskGood(p) # {})
           /\ gather.calls # <<>> =>
                  /\ gather.calls[1].op = "add"
                  /\ \A p \in FilesOfGather :
                         Cardinality(BatchRowsOf(p)) = Cardinality(TaskGood(p))
                  /\ \A j \in 1..Len(gather.calls[1].rows) :
                         gather.calls[1].rows[j].file_path \in FilesOfGather

\* the task of a.py failed to parse; the insert carries the rows of the others
C25_Witness ==
    /\ gather.phase = "done"
    /\ Len(gather.files) = 3
    /\ Fails(gather.fault, "parse", A_PY) /\ ~Fails(gather.fault, "parse", B_PY)
    /\ gather.all_chunks_from_tasks[1] = <<>>
    /\ Len(gather.calls) = 1 /\ gather.calls[1].ok
    /\ BatchRowsOf(B_PY) # {} /\ BatchRowsOf(SUB_PY) # {}
    /\ BagCardinality(gather.table) = Len(gather.calls[1].rows)

\* the last run went through its deletion phase with paths to delete
DeleteRan ==
    /\ Synced /\ last.step \in {"delete", "insert", "done"}
    /\ DeletedSet \cup ModifiedSet # {}

\* the rows of the table, before the run, that the paths to delete own
OwnedBefore ==
    {r \in DOMAIN RowsBefore :
        r.repo_url = last.url /\ r.file_path \in DeletedSet \cup ModifiedSet}

\* C26: when counting the rows to delete fails, the delete is still issued
\* for the paths of deleted and modified and the count reported is 0; when
\* these paths own no chunk, the count is 0 and the phase does not fail.
C26_CountFailureDoesNotBlock ==
    DeleteRan =>
        /\ last.fault.site = "count" =>
               /\ Len(CallsTo("delete")) = 1
               /\ FilterPaths(CallsTo("delete")[1]) = Literals(DeletedSet \cup ModifiedSet)
               /\ last.chunks_deleted = 0
               /\ last.step # "delete"
        /\ (last.fault = NoFault /\ OwnedBefore = {}) =>
               /\ last.chunks_deleted = 0
               /\ last.step # "delete"

\* the last run asked for the diff of its two commits
DiffRan == Synced /\ last.step \in {"diff", "delete", "insert", "done"}

\* C27: when the diff command fails inside a sync, the run issues no count,
\* delete or insert, and the rows of every table are those from before the run.
C27_DiffFailureTouchesNothing ==
    (DiffRan /\ ~gitOut.ok) =>
        /\ CallsTo("count") = <<>>
        /\ CallsTo("delete") = <<>>
        /\ CallsTo("add") = <<>>
        /\ RowsAfter = RowsBefore
        /\ \A n \in DOMAIN last.pre : n \in DOMAIN db /\ db[n] = last.pre[n]

\* the diff fails on a table that holds rows of files the two commits differ in
C27_Witness ==
    /\ DiffRan /\ ~gitOut.ok
    /\ gitOut.entries # <<>>
    /\ RowsBefore # EmptyBag
    /\ RowsAfter = RowsBefore
    /\ last.status = "error"

\* the text of a row: `content` in app/indexing, `code_chunk` before
RowText(r) == IF last.v = "indexing" THEN r.content ELSE r.code_chunk

\* the rows the last run inserted for path p
InsertedOf(p) ==
    {last.calls[ij[1]].rows[ij[2]] : ij \in InsertedRowsOf(p)}

\* C28: in a sync that meets no failure, every file of added and modified
\* that exists gets one row per chunk of its content, with the repo_url, the
\* path, the text and the lines of the chunk; chunks_added counts these rows.
C28_RowsPerChunk ==
    (InsertRan /\ last.fault = NoFault) =>
        /\ \A p \in FilesToAddSet :
               Exists(WorkingCopy, p) =>
                   LET chunks == parse_and_extract_chunks(p, WorkingCopy[p])
                   IN  /\ Cardinality(InsertedRowsOf(p)) = Len(chunks)
                       /\ \A i \in 1..Len(chunks) :
                              \E r \in InsertedOf(p) :
                                  /\ r.repo_url = last.url
                                  /\ r.file_path = p
                                  /\ RowText(r) = chunks[i].code
                                  /\ r.start_line = chunks[i].start_line
                                  /\ r.end_line = chunks[i].end_line
        /\ last.chunks_added = SumGood(FilesToAddSet)

-----------------------------------------------------------------------------
(* The pull-request handler: the claims *)

Collected == review.phase = "collected"

\* the comments of result k that name a line of FileDiff k with a position,
\* and have a text
Mappable(k) ==
    {j \in 1..Len(review.result[k].inline_comments) :
        LET c == review.result[k].inline_comments[j]
        IN  /\ c.line_number # <<>>
            /\ c.line_number[1] \in DOMAIN review.file_diffs[k].line_mapping
            /\ c.comment # <<>>}

EmittedFor(k) ==
    {n \in 1..Len(review.all_inline_comments) : review.all_inline_comments[n].about = k}

\* C29: every inline comment of the review comes from the result of the task
\* of the FileDiff it is paired with, names a line that has an entry in that
\* FileDiff's line_mapping, carries that entry as position, the FileDiff's
\* path and a non-empty text; a task that fails loses its own comments only:
\* the mappable comments of every other task are all emitted.
C29_CommentsFollowMapping ==
    Collected =>
        /\ \A n \in 1..Len(review.all_inline_comments) :
               LET e == review.all_inline_comments[n]
                   file_diff == review.file_diffs[e.about]
               IN  /\ e.slot = e.about
                   /\ e.line # <<>>
                   /\ e.line[1] \in DOMAIN file_diff.line_mapping
                   /\ e.position = file_diff.line_mapping[e.line[1]]
                   /\ e.path = file_diff.path
                   /\ e.body # <<>>
                   /\ ~review.result[e.about].failed
        /\ \A k \in 1..Len(review.file_diffs) :
               Cardinality(EmittedFor(k)) =
                   IF review.result[k].failed THEN 0 ELSE Cardinality(Mappable(k))

\* three review tasks ended in another order than they were created, one of
\* them failed, and a comment of another one was emitted
C29_Witness ==
    /\ Collected
    /\ Len(review.file_diffs) = 3
    /\ review.finished = <<3, 1, 2>>
    /\ review.result[1].failed
    /\ EmittedFor(3) # {}
    /\ \E n \in EmittedFor(3) : review.all_inline_comments[n].position = 5

-----------------------------------------------------------------------------
(* FullIndexer: what a run does to the table *)

FullIndexRan == last.op = "index"

\* the rows of the inserts of the last run that the store accepted
RECURSIVE AcceptedRows(_)
AcceptedRows(calls) ==
    IF calls = <<>> THEN EmptyBag
    ELSE (IF Head(calls).op = "add" /\ Head(calls).ok
          THEN SeqToBag(Head(calls).rows) ELSE EmptyBag) (+) AcceptedRows(Tail(calls))

=============================================================================
